---------------------------- MODULE Spec2Model ----------------------------
(***************************************************************************)
(* A model of the pass/context layer of masonry (src/src/contexts.rs):     *)
(* the five context views (WidgetCtx, EventCtx, LifeCycleCtx, LayoutCtx,   *)
(* PaintCtx), the activation protocol (init / check_init), the shared pass *)
(* state GlobalPassCtx (command queue, action queue, timers) and the       *)
(* deferred z-ordered paint list.                                          *)
(*                                                                         *)
(* The context views form a stack: the tree driver (WidgetPod, which is    *)
(* not part of contexts.rs) builds a view for a child while the parent's   *)
(* handler is running, and PaintCtx::with_child_ctx builds a nested paint  *)
(* view.  The last element of ctxs is the view the running handler holds.  *)
(***************************************************************************)
EXTENDS Integers, Sequences, FiniteSets, TLC

VARIABLES
    debug_assertions,   \* cfg(debug_assertions): fixed by the build
    ctxs,               \* stack of context views, innermost last
    panicked,           \* NoPanic, or the diagnostic of the panic that aborted
    widget_state,       \* [WidgetIds -> WidgetState record]
    global_state,       \* GlobalPassCtx: queues, timers, mock timer queue, focus
    platform,           \* the host: TimerToken counter, platform timers, run loop
    render_ctx,         \* Piet render context: current transform, save stack
    hist,               \* history of what widgets asked for (observation only)
    budget              \* number of calls the handlers of the pass may still make

vars == <<debug_assertions, ctxs, panicked, widget_state,
          global_state, platform, render_ctx, hist, budget>>

-----------------------------------------------------------------------------
(* Bounds of the model *)

NumWidgets == 3
MaxCoord == 1
MaxNesting == 2
MaxTime == 4
MaxDuration == 3
MaxAdvance == 2
MaxMisuses == 3
MaxPaintCalls == 4
MaxFocusCalls == 2
MaxTimers == 2
MaxSubmits == 3
MaxLayoutCalls == 2
MaxRequests == 3
MaxRepaints == 2
MaxDisables == 3
MaxTasks == 2
MaxEventCalls == 4

-----------------------------------------------------------------------------
(* The widget tree: widget 1 is the root, widget w > 1 is a child of w \div 2 *)

WidgetIds == 1..NumWidgets
RootId == 1
ParentOf(w) == w \div 2
ChildrenOf(p) == {c \in WidgetIds : c > 1 /\ ParentOf(c) = p}

RECURSIVE IsAncestorOrSelf(_, _)
IsAncestorOrSelf(a, w) ==
    IF w = a THEN TRUE
    ELSE IF w <= 1 THEN FALSE
    ELSE IsAncestorOrSelf(a, ParentOf(w))

WidgetName(w) == IF w = RootId THEN "Root" ELSE "Child"

(* Option<T>: None is the empty set, Some(x) the singleton *)
None == {}
Some(x) == {x}
NoPanic == None

CtxKinds == {"WidgetCtx", "EventCtx", "LifeCycleCtx", "LayoutCtx", "PaintCtx"}

(* geometry: integer points and rectangles *)
Coords == 0..MaxCoord
Points == [x : Coords, y : Coords]
Rect(x0, y0, x1, y1) == [x0 |-> x0, y0 |-> y0, x1 |-> x1, y1 |-> y1]
ZeroRect == Rect(0, 0, 0, 0)
Min(a, b) == IF a <= b THEN a ELSE b
Max(a, b) == IF a >= b THEN a ELSE b
RectUnion(r, s) ==
    Rect(Min(r.x0, s.x0), Min(r.y0, s.y0), Max(r.x1, s.x1), Max(r.y1, s.y1))
RectContains(r, p) ==
    p.x >= r.x0 /\ p.x < r.x1 /\ p.y >= r.y0 /\ p.y < r.y1
RectArea(r) == Max(r.x1 - r.x0, 0) * Max(r.y1 - r.y0, 0)
RectTranslate(r, v) == Rect(r.x0 + v.x, r.y0 + v.y, r.x1 + v.x, r.y1 + v.y)
RectContainsRect(outer, inner) ==
    /\ outer.x0 <= inner.x0 /\ outer.y0 <= inner.y0
    /\ outer.x1 >= inner.x1 /\ outer.y1 >= inner.y1

(* Insets: the amounts added on the four sides of a rectangle *)
Insets(x0, y0, x1, y1) == [x0 |-> x0, y0 |-> y0, x1 |-> x1, y1 |-> y1]
ZeroInsets == Insets(0, 0, 0, 0)
(* Insets::nonnegative *)
nonnegative(i) == Insets(Max(i.x0, 0), Max(i.y0, 0), Max(i.x1, 0), Max(i.y1, 0))
(* Rect + Insets *)
RectPlusInsets(r, i) == Rect(r.x0 - i.x0, r.y0 - i.y0, r.x1 + i.x1, r.y1 + i.y1)

(* Region: a set of rectangles; the unit cells a rectangle or region covers *)
Cells(r) == {[x |-> x, y |-> y] : x \in r.x0..(r.x1 - 1), y \in r.y0..(r.y1 - 1)}
RegionCells(region) == UNION {Cells(r) : r \in region}
RegionContains(region, r) == Cells(r) \subseteq RegionCells(region)
EmptyRegion == {}
(* Region::add_rect: a rectangle without area is not kept *)
add_rect(region, rect) == IF RectArea(rect) > 0 THEN region \cup {rect} ELSE region
(* Region::set_rect: the region becomes the one rectangle *)
set_rect(region, rect) == add_rect(EmptyRegion, rect)
RegionTranslate(region, v) == {RectTranslate(r, v) : r \in region}


-----------------------------------------------------------------------------
(* Records *)

(* A context view.  One record shape serves the five view types; the fields  *)
(* a view type does not have keep their initial value and are never read.    *)
NewCtx(kind, w, made_by, mouse, region, depth) ==
    [kind |-> kind,
     made_by |-> made_by,               \* "pod" (the tree driver) or "with_child_ctx"
     widget |-> w,
     is_init |-> FALSE,
     is_handled |-> FALSE,              \* EventCtx
     request_pan_to_child |-> None,     \* EventCtx
     mouse_pos |-> mouse,               \* LayoutCtx
     z_ops |-> <<>>,                    \* PaintCtx
     region |-> region,                 \* PaintCtx
     depth |-> depth,                   \* PaintCtx
     open_saves |-> 0,                  \* PaintCtx: with_save closures running
     visiting |-> {}]                   \* children the handler has recursed into

(* WidgetState of widget w before the pass; focus is the focused widget *)
NewWidgetState(w, focus) ==
    [id |-> w,
     origin |-> [x |-> 0, y |-> 0],
     size |-> [w |-> 1, h |-> 1],
     local_paint_rect |-> ZeroRect,
     is_expecting_place_child_call |-> TRUE,
     is_hot |-> FALSE,
     has_focus |-> (\E f \in focus : IsAncestorOrSelf(w, f)),
     is_portal |-> FALSE,
     children_disabled_changed |-> FALSE,
     request_focus |-> None,
     needs_layout |-> FALSE,
     request_anim |-> FALSE,
     children_changed |-> FALSE,
     update_focus_chain |-> FALSE,
     invalid |-> EmptyRegion,
     paint_insets |-> ZeroInsets,
     is_stashed |-> FALSE,
     is_explicitly_disabled_new |-> FALSE,
     is_explicitly_disabled |-> FALSE,
     ancestor_disabled |-> FALSE,
     children |-> {},
     was_visited |-> FALSE]

layout_rect(ws) ==
    Rect(ws.origin.x, ws.origin.y, ws.origin.x + ws.size.w, ws.origin.y + ws.size.h)

(* WidgetState::paint_rect: the layout rectangle expanded by the paint insets *)
paint_rect(ws) == RectPlusInsets(layout_rect(ws), ws.paint_insets)

(* WidgetState::is_disabled: the effective-disabled status *)
is_disabled(ws) == ws.is_explicitly_disabled \/ ws.ancestor_disabled

Top == ctxs[Len(ctxs)]
SetTop(c) == [ctxs EXCEPT ![Len(ctxs)] = c]
Cur == Top.widget

Running == panicked = NoPanic /\ ctxs # <<>>

-----------------------------------------------------------------------------
(* The activation protocol *)

ctx_name(c) == c.kind

(* Self::method_name(): WidgetCtx has none, its body is unreachable!() *)
HasMethodName(c) == c.kind # "WidgetCtx"
method_name(c) ==
    CASE c.kind = "EventCtx" -> "on_event"
      [] c.kind = "LifeCycleCtx" -> "lifecycle"
      [] c.kind = "LayoutCtx" -> "layout"
      [] c.kind = "PaintCtx" -> "paint"
      [] OTHER -> "unreachable"

(* The panic raised by a debug_panic! in view c.  The arguments of the       *)
(* message are evaluated first, so on a WidgetCtx the panic is the           *)
(* unreachable!() of method_name and carries no diagnostic.                  *)
Diagnostic(what, c, ctx_method_name) ==
    IF HasMethodName(c)
    THEN [panic |-> what,
          ctx_name |-> ctx_name(c),
          ctx_method_name |-> ctx_method_name,
          widget_name |-> WidgetName(c.widget),
          widget_id |-> c.widget,
          method_name |-> method_name(c)]
    ELSE [panic |-> "unreachable",
          ctx_name |-> "",
          ctx_method_name |-> "",
          widget_name |-> "",
          widget_id |-> 0,
          method_name |-> ""]

Rest == <<widget_state, global_state, platform, render_ctx, hist>>

(* a mutant of init: a second activation is accepted silently *)
init_Idempotent ==
    /\ Running
    /\ ctxs' = SetTop([Top EXCEPT !.is_init = TRUE])
    /\ UNCHANGED <<debug_assertions, panicked>>
    /\ UNCHANGED Rest

(* init(): the whole body is under cfg(debug_assertions) *)
init ==
    /\ Running
    /\ IF debug_assertions
       THEN IF Top.is_init
            THEN /\ panicked' = Some(Diagnostic("initialized multiple times", Top, "init"))
                 /\ UNCHANGED ctxs
            ELSE /\ ctxs' = SetTop([Top EXCEPT !.is_init = TRUE])
                 /\ UNCHANGED panicked
       ELSE UNCHANGED <<ctxs, panicked>>
    /\ UNCHANGED debug_assertions
    /\ UNCHANGED Rest

(* check_init(method_name) fails: debug build and the view is inactive *)
CheckInitFails == debug_assertions /\ ~Top.is_init

(* the step of an operation whose check_init(name) failed *)
check_init_panic(name) ==
    /\ panicked' = Some(Diagnostic("called before init", Top, name))
    /\ UNCHANGED <<debug_assertions, ctxs>>
    /\ UNCHANGED Rest

-----------------------------------------------------------------------------
(* Queries: operations that only read *)

QueriesOf(kind) ==
    {"widget_id", "window", "window_id", "text"}
    \cup (IF kind # "LayoutCtx"
          THEN {"size", "window_origin", "to_window", "to_screen", "is_hot",
                "is_active", "is_focused", "has_focus", "is_disabled", "is_stashed"}
          ELSE {})
    \cup (IF kind = "EventCtx" THEN {"is_handled"} ELSE {})
    \cup (IF kind = "PaintCtx" THEN {"depth", "region"} ELSE {})

(* depth() and region() do not call check_init *)
QueryChecksInit(q) == q \notin {"depth", "region"}

Query(q) ==
    /\ Running
    /\ q \in QueriesOf(Top.kind)
    /\ IF QueryChecksInit(q) /\ CheckInitFails
       THEN check_init_panic(q)
       ELSE /\ UNCHANGED <<debug_assertions, ctxs, panicked>>
            /\ UNCHANGED Rest

(* values the queries return *)
is_focused(c) == global_state.focus_widget = Some(c.widget)
has_focus(c) == widget_state[c.widget].has_focus

-----------------------------------------------------------------------------
(* Operations of every view *)

(* WidgetPod::mark_as_visited *)
mark_as_visited(ws) == [ws EXCEPT !.was_visited = TRUE]

skip_child(child) ==
    /\ Running
    /\ child \in ChildrenOf(Cur)
    /\ widget_state' = [widget_state EXCEPT ![child] = mark_as_visited(@)]
    /\ UNCHANGED <<debug_assertions, ctxs, panicked, global_state, platform,
                   render_ctx, hist>>

(* LifeCycleCtx::register_child *)
register_child(child_id) ==
    /\ Running
    /\ Top.kind = "LifeCycleCtx"
    /\ widget_state' = [widget_state EXCEPT
                          ![Cur].children = @ \cup {child_id}]
    /\ UNCHANGED <<debug_assertions, ctxs, panicked, global_state, platform,
                   render_ctx, hist>>

(* LifeCycleCtx::register_as_portal: the name it hands to check_init is *)
(* "register_text_input"                                                *)
register_as_portal ==
    /\ Running
    /\ Top.kind = "LifeCycleCtx"
    /\ IF CheckInitFails
       THEN check_init_panic("register_text_input")
       ELSE /\ widget_state' = [widget_state EXCEPT ![Cur].is_portal = TRUE]
            /\ UNCHANGED <<debug_assertions, ctxs, panicked, global_state,
                           platform, render_ctx, hist>>

(* EventCtx::request_pan_to_this *)
request_pan_to_this ==
    /\ Running
    /\ Top.kind = "EventCtx"
    /\ ctxs' = SetTop([Top EXCEPT
                         !.request_pan_to_child = Some(layout_rect(widget_state[Cur]))])
    /\ UNCHANGED <<debug_assertions, panicked>>
    /\ UNCHANGED Rest

-----------------------------------------------------------------------------
(* PaintCtx *)

ZIndices == {0, 3, 5}
Regions == {"clip"}
NumTransforms == 2
Transforms == 0..(NumTransforms - 1)

(* RenderContext::transform: composes t onto the current transform *)
transform(t) ==
    /\ Running
    /\ Top.kind = "PaintCtx"
    /\ t # 0
    /\ render_ctx' = [render_ctx EXCEPT
                        !.transform = (@ + t) % NumTransforms]
    /\ UNCHANGED <<debug_assertions, ctxs, panicked, widget_state, global_state,
                   platform, hist>>

ZOrderPaintOp(z_index, paint_func, current_transform) ==
    [z_index |-> z_index, paint_func |-> paint_func, transform |-> current_transform]

(* a mutant of paint_with_z_index: the operation is put in front of the list *)
paint_with_z_index_Front(z_index, paint_func) ==
    LET op == ZOrderPaintOp(z_index, paint_func, render_ctx.transform) IN
    /\ Running
    /\ Top.kind = "PaintCtx"
    /\ ctxs' = SetTop([Top EXCEPT !.z_ops = <<op>> \o @])
    /\ hist' = [hist EXCEPT !.scheduled = Append(@,
                   [op |-> op, depth |-> Top.depth, at |-> render_ctx.transform])]
    /\ UNCHANGED <<debug_assertions, panicked, widget_state, global_state,
                   platform, render_ctx>>

(* a mutant of paint_with_z_index: the transform is not captured *)
paint_with_z_index_NoCapture(z_index, paint_func) ==
    LET op == ZOrderPaintOp(z_index, paint_func, 0) IN
    /\ Running
    /\ Top.kind = "PaintCtx"
    /\ ctxs' = SetTop([Top EXCEPT !.z_ops = Append(@, op)])
    /\ hist' = [hist EXCEPT !.scheduled = Append(@,
                   [op |-> op, depth |-> Top.depth, at |-> render_ctx.transform])]
    /\ UNCHANGED <<debug_assertions, panicked, widget_state, global_state,
                   platform, render_ctx>>

(* a mutant of paint_with_z_index: the widget is marked for layout too *)
paint_with_z_index_RequestsLayout(z_index, paint_func) ==
    LET op == ZOrderPaintOp(z_index, paint_func, render_ctx.transform) IN
    /\ Running
    /\ Top.kind = "PaintCtx"
    /\ ctxs' = SetTop([Top EXCEPT !.z_ops = Append(@, op)])
    /\ widget_state' = [widget_state EXCEPT ![Cur].needs_layout = TRUE]
    /\ hist' = [hist EXCEPT !.scheduled = Append(@,
                   [op |-> op, depth |-> Top.depth, at |-> render_ctx.transform])]
    /\ UNCHANGED <<debug_assertions, panicked, global_state, platform, render_ctx>>

(* PaintCtx::paint_with_z_index; paint_func names the closure *)
paint_with_z_index(z_index, paint_func) ==
    LET current_transform == render_ctx.transform
        op == ZOrderPaintOp(z_index, paint_func, current_transform) IN
    /\ Running
    /\ Top.kind = "PaintCtx"
    /\ ctxs' = SetTop([Top EXCEPT !.z_ops = Append(@, op)])
    /\ hist' = [hist EXCEPT !.scheduled = Append(@,
                   [op |-> op, depth |-> Top.depth, at |-> render_ctx.transform])]
    /\ UNCHANGED <<debug_assertions, panicked, widget_state, global_state,
                   platform, render_ctx>>

(* PaintCtx::with_child_ctx up to the call of f: the nested view is built *)
with_child_ctx(region) ==
    /\ Running
    /\ Top.kind = "PaintCtx"
    /\ Len(ctxs) < MaxNesting
    /\ ctxs' = Append(ctxs, NewCtx("PaintCtx", Cur, "with_child_ctx", None,
                                   region, Top.depth + 1))
    /\ UNCHANGED <<debug_assertions, panicked>>
    /\ UNCHANGED Rest

(* a mutant of with_child_ctx_return: the nested list is dropped *)
with_child_ctx_return_Drop ==
    /\ Running
    /\ Len(ctxs) >= 2
    /\ Top.made_by = "with_child_ctx"
    /\ Top.open_saves = 0
    /\ ctxs' = SubSeq(ctxs, 1, Len(ctxs) - 1)
    /\ UNCHANGED <<debug_assertions, panicked>>
    /\ UNCHANGED Rest

(* PaintCtx::with_child_ctx after f returned: self.z_ops.append(child z_ops) *)
with_child_ctx_return ==
    /\ Running
    /\ Len(ctxs) >= 2
    /\ Top.made_by = "with_child_ctx"
    /\ Top.open_saves = 0
    /\ ctxs' = [SubSeq(ctxs, 1, Len(ctxs) - 1) EXCEPT
                  ![Len(ctxs) - 1].z_ops = @ \o Top.z_ops]
    /\ UNCHANGED <<debug_assertions, panicked>>
    /\ UNCHANGED Rest

(* a mutant of with_save: f is run although the save failed *)
with_save_RunAnyway(save_ok) ==
    /\ Running
    /\ Top.kind = "PaintCtx"
    /\ IF save_ok
       THEN /\ Len(render_ctx.saved) < MaxNesting
            /\ render_ctx' = [render_ctx EXCEPT
                                !.saved = Append(@, render_ctx.transform)]
            /\ ctxs' = SetTop([Top EXCEPT !.open_saves = @ + 1])
            /\ hist' = [hist EXCEPT !.saves = Append(@, "save_ok")]
       ELSE /\ hist' = [hist EXCEPT
                          !.logged = @ \cup {"Failed to save RenderContext"},
                          !.saves = Append(@, "save_err")]
            /\ ctxs' = SetTop([Top EXCEPT !.open_saves = @ + 1])
            /\ UNCHANGED render_ctx
    /\ UNCHANGED <<debug_assertions, panicked, widget_state, global_state, platform>>

(* PaintCtx::with_save up to the call of f; save_ok: render_ctx.save() is Ok *)
with_save(save_ok) ==
    /\ Running
    /\ Top.kind = "PaintCtx"
    /\ IF save_ok
       THEN /\ Len(render_ctx.saved) < MaxNesting
            /\ render_ctx' = [render_ctx EXCEPT
                                !.saved = Append(@, render_ctx.transform)]
            /\ ctxs' = SetTop([Top EXCEPT !.open_saves = @ + 1])
            /\ hist' = [hist EXCEPT !.saves = Append(@, "save_ok")]
       ELSE /\ hist' = [hist EXCEPT
                          !.logged = @ \cup {"Failed to save RenderContext"},
                          !.saves = Append(@, "save_err")]
            /\ UNCHANGED <<ctxs, render_ctx>>
    /\ UNCHANGED <<debug_assertions, panicked, widget_state, global_state, platform>>

(* PaintCtx::with_save after f returned; restore_ok: render_ctx.restore() is Ok *)
with_save_return(restore_ok) ==
    /\ Running
    /\ Top.kind = "PaintCtx"
    /\ Top.open_saves > 0
    /\ ctxs' = SetTop([Top EXCEPT !.open_saves = @ - 1])
    /\ IF restore_ok
       THEN /\ Len(render_ctx.saved) > 0
            /\ render_ctx' = [render_ctx EXCEPT
                 !.transform = render_ctx.saved[Len(render_ctx.saved)],
                 !.saved = SubSeq(@, 1, Len(@) - 1)]
            /\ hist' = [hist EXCEPT !.saves = Append(@, "restore_ok")]
       ELSE /\ hist' = [hist EXCEPT
                          !.logged = @ \cup {"Failed to restore RenderContext"},
                          !.saves = Append(@, "restore_err")]
            /\ UNCHANGED render_ctx
    /\ UNCHANGED <<debug_assertions, panicked, widget_state, global_state, platform>>

(* the stable sort the paint driver applies to the root's deferred list *)
RECURSIVE InsertByZ(_, _)
InsertByZ(s, op) ==
    IF s = <<>> THEN <<op>>
    ELSE IF Head(s).z_index <= op.z_index
         THEN <<Head(s)>> \o InsertByZ(Tail(s), op)
         ELSE <<op>> \o s

RECURSIVE SortByZ(_)
SortByZ(s) ==
    IF s = <<>> THEN <<>>
    ELSE InsertByZ(SortByZ(SubSeq(s, 1, Len(s) - 1)), s[Len(s)])

(* The paint driver after the document-order traversal: the root's deferred *)
(* operations are sorted and each is run with its captured transform.       *)
paint_finish ==
    /\ Running
    /\ Len(ctxs) = 1
    /\ Top.kind = "PaintCtx"
    /\ Top.open_saves = 0
    /\ render_ctx' = [render_ctx EXCEPT
                        !.drawn = @ \o [i \in 1..Len(Top.z_ops) |->
                                          [paint_func |-> SortByZ(Top.z_ops)[i].paint_func,
                                           transform |-> SortByZ(Top.z_ops)[i].transform]]]
    /\ ctxs' = <<>>
    /\ UNCHANGED <<debug_assertions, panicked, widget_state, global_state,
                   platform, hist>>

-----------------------------------------------------------------------------
(* EventCtx: focus requests *)

FocusChange(change, target) == [change |-> change, target |-> target]

(* the record of a focus call in the history *)
FocusCall(op, asked) == [widget |-> Cur, op |-> op, asked |-> asked]

(* a mutant of request_focus: the focus moves at once *)
request_focus_Immediate ==
    /\ Running
    /\ Top.kind = "EventCtx"
    /\ IF CheckInitFails
       THEN check_init_panic("request_focus")
       ELSE /\ widget_state' = [widget_state EXCEPT
                   ![Cur].request_focus = Some(FocusChange("Focus", Cur)),
                   ![Cur].has_focus = TRUE]
            /\ global_state' = [global_state EXCEPT !.focus_widget = Some(Cur)]
            /\ hist' = [hist EXCEPT !.focus_calls =
                   Append(@, FocusCall("request_focus", FocusChange("Focus", Cur)))]
            /\ UNCHANGED <<debug_assertions, ctxs, panicked, platform, render_ctx>>

(* a mutant of request_focus: an earlier pending request is kept *)
request_focus_KeepFirst ==
    /\ Running
    /\ Top.kind = "EventCtx"
    /\ IF CheckInitFails
       THEN check_init_panic("request_focus")
       ELSE /\ widget_state' = [widget_state EXCEPT ![Cur].request_focus =
                   IF @ = None THEN Some(FocusChange("Focus", Cur)) ELSE @]
            /\ hist' = [hist EXCEPT !.focus_calls =
                   Append(@, FocusCall("request_focus", FocusChange("Focus", Cur)))]
            /\ UNCHANGED <<debug_assertions, ctxs, panicked, global_state,
                           platform, render_ctx>>

(* EventCtx::request_focus *)
request_focus ==
    /\ Running
    /\ Top.kind = "EventCtx"
    /\ IF CheckInitFails
       THEN check_init_panic("request_focus")
       ELSE /\ widget_state' = [widget_state EXCEPT ![Cur].request_focus =
                   Some(FocusChange("Focus", Cur))]
            /\ hist' = [hist EXCEPT !.focus_calls =
                   Append(@, FocusCall("request_focus", FocusChange("Focus", Cur)))]
            /\ UNCHANGED <<debug_assertions, ctxs, panicked, global_state,
                           platform, render_ctx>>

(* EventCtx::set_focus *)
set_focus(target) ==
    /\ Running
    /\ Top.kind = "EventCtx"
    /\ IF CheckInitFails
       THEN check_init_panic("set_focus")
       ELSE /\ widget_state' = [widget_state EXCEPT ![Cur].request_focus =
                   Some(FocusChange("Focus", target))]
            /\ hist' = [hist EXCEPT !.focus_calls =
                   Append(@, FocusCall("set_focus", FocusChange("Focus", target)))]
            /\ UNCHANGED <<debug_assertions, ctxs, panicked, global_state,
                           platform, render_ctx>>

(* the shared shape of focus_next, focus_prev and resign_focus *)
FocusIfHasFocus(op, change) ==
    /\ Running
    /\ Top.kind = "EventCtx"
    /\ IF CheckInitFails
       THEN check_init_panic(op)
       ELSE /\ IF has_focus(Top)
               THEN /\ widget_state' = [widget_state EXCEPT ![Cur].request_focus =
                           Some(FocusChange(change, 0))]
                    /\ hist' = [hist EXCEPT !.focus_calls =
                           Append(@, FocusCall(op, FocusChange(change, 0)))]
               ELSE /\ UNCHANGED widget_state
                    /\ hist' = [hist EXCEPT
                          !.focus_calls = Append(@, FocusCall(op, FocusChange(change, 0))),
                          !.logged = @ \cup {op}]
            /\ UNCHANGED <<debug_assertions, ctxs, panicked, global_state,
                           platform, render_ctx>>

(* a mutant of focus_next: the has_focus test is left out *)
focus_next_Unchecked ==
    /\ Running
    /\ Top.kind = "EventCtx"
    /\ IF CheckInitFails
       THEN check_init_panic("focus_next")
       ELSE /\ widget_state' = [widget_state EXCEPT ![Cur].request_focus =
                   Some(FocusChange("Next", 0))]
            /\ hist' = [hist EXCEPT !.focus_calls =
                   Append(@, FocusCall("focus_next", FocusChange("Next", 0)))]
            /\ UNCHANGED <<debug_assertions, ctxs, panicked, global_state,
                           platform, render_ctx>>

(* EventCtx::focus_next *)
focus_next == FocusIfHasFocus("focus_next", "Next")

(* EventCtx::focus_prev *)
focus_prev == FocusIfHasFocus("focus_prev", "Previous")

(* EventCtx::resign_focus *)
resign_focus == FocusIfHasFocus("resign_focus", "Resign")

(* a mutant of set_handled: the flag is flipped instead of set *)
set_handled_Toggle ==
    /\ Running
    /\ Top.kind = "EventCtx"
    /\ IF CheckInitFails
       THEN check_init_panic("set_handled")
       ELSE /\ ctxs' = SetTop([Top EXCEPT !.is_handled = ~@])
            /\ UNCHANGED <<debug_assertions, panicked>>
            /\ UNCHANGED Rest

(* EventCtx::set_handled *)
set_handled ==
    /\ Running
    /\ Top.kind = "EventCtx"
    /\ IF CheckInitFails
       THEN check_init_panic("set_handled")
       ELSE /\ ctxs' = SetTop([Top EXCEPT !.is_handled = TRUE])
            /\ UNCHANGED <<debug_assertions, panicked>>
            /\ UNCHANGED Rest

(* EventCtx::is_handled: the handler reads the flag of its view; the *)
(* answer is recorded with the widget whose view was asked           *)
is_handled ==
    /\ Running
    /\ Top.kind = "EventCtx"
    /\ IF CheckInitFails
       THEN check_init_panic("is_handled")
       ELSE /\ hist' = [hist EXCEPT !.answers =
                          Append(@, [widget |-> Cur, handled |-> Top.is_handled])]
            /\ UNCHANGED <<debug_assertions, ctxs, panicked, widget_state,
                           global_state, platform, render_ctx>>

-----------------------------------------------------------------------------
(* The tree driver (WidgetPod): recursion into a child and merge-up *)

(* WidgetState::merge_up: the parent absorbs the child's pending changes; *)
(* the child's focus request is taken and overrides the parent's          *)
merge_up(parent, child) ==
    <<[parent EXCEPT
         !.needs_layout = @ \/ child.needs_layout,
         !.request_anim = @ \/ child.request_anim,
         !.children_changed = @ \/ child.children_changed,
         !.update_focus_chain = @ \/ child.update_focus_chain,
         !.invalid = @ \cup RegionTranslate(child.invalid, child.origin),
         !.request_focus = IF child.request_focus # None
                           THEN child.request_focus ELSE @],
      [child EXCEPT !.request_focus = None]>>

(* the pointer position in the child's coordinate space *)
child_mouse_pos(mouse_pos, child) ==
    {[x |-> p.x - child.origin.x, y |-> p.y - child.origin.y] : p \in mouse_pos}

(* the parent's handler calls the child's pod, which builds the child's view *)
pod_enter(child) ==
    /\ Running
    /\ Top.kind \in {"EventCtx", "LifeCycleCtx", "LayoutCtx"}
    /\ child \in ChildrenOf(Cur) \ Top.visiting
    /\ ctxs' = Append(SetTop([Top EXCEPT !.visiting = @ \cup {child}]),
                      NewCtx(Top.kind, child, "pod",
                             child_mouse_pos(Top.mouse_pos, widget_state[child]),
                             "clip", 0))
    /\ hist' = [hist EXCEPT !.visits = Append(@, child)]
    /\ UNCHANGED <<debug_assertions, panicked, widget_state, global_state,
                   platform, render_ctx>>

(* the child's handler returned: the pod merges the child into the parent *)
pod_return ==
    /\ Running
    /\ Len(ctxs) >= 2
    /\ Top.made_by = "pod"
    /\ LET child == Top.widget
           parent == ctxs[Len(ctxs) - 1].widget
           merged == merge_up(widget_state[parent], widget_state[child])
       IN  /\ widget_state' = [widget_state EXCEPT
                                 ![parent] = merged[1], ![child] = merged[2]]
           /\ ctxs' = [SubSeq(ctxs, 1, Len(ctxs) - 1) EXCEPT
                         ![Len(ctxs) - 1].is_handled = @ \/ Top.is_handled]
    /\ UNCHANGED <<debug_assertions, panicked, global_state, platform,
                   render_ctx, hist>>

(* get_mut of the generic, event and lifecycle views: a generic view of *)
(* the child, built with is_init: true, inside a WidgetMut               *)
get_mut(child) ==
    /\ Running
    /\ Top.kind \in {"WidgetCtx", "EventCtx", "LifeCycleCtx"}
    /\ child \in ChildrenOf(Cur)
    /\ Len(ctxs) < MaxNesting + 1
    /\ ctxs' = Append(ctxs, [NewCtx("WidgetCtx", child, "get_mut", None, "clip", 0)
                               EXCEPT !.is_init = TRUE])
    /\ UNCHANGED <<debug_assertions, panicked>>
    /\ UNCHANGED Rest

(* the WidgetMut goes out of scope: the child's view is gone *)
get_mut_return ==
    /\ Running
    /\ Len(ctxs) >= 2
    /\ Top.made_by = "get_mut"
    /\ ctxs' = SubSeq(ctxs, 1, Len(ctxs) - 1)
    /\ UNCHANGED <<debug_assertions, panicked>>
    /\ UNCHANGED Rest

(* the root's handler returned: the pass is over *)
pass_end ==
    /\ Running
    /\ Len(ctxs) = 1
    /\ Top.kind # "PaintCtx"
    /\ ctxs' = <<>>
    /\ UNCHANGED <<debug_assertions, panicked>>
    /\ UNCHANGED Rest

PassOver == ctxs = <<>> /\ panicked = NoPanic

-----------------------------------------------------------------------------
(* Commands and actions *)

Target(kind, id) == [kind |-> kind, id |-> id]
TargetAuto == Target("Auto", 0)
TargetGlobal == Target("Global", 0)
TargetWindow(window_id) == Target("Window", window_id)

Selectors == {"a", "b"}
Command(selector, target) == [selector |-> selector, target |-> target]
Actions == {"x", "y"}

(* Command::default_to: an Auto target is replaced, any other target kept *)
default_to(command, target) ==
    IF command.target = TargetAuto
    THEN [command EXCEPT !.target = target]
    ELSE command

(* a mutant of GlobalPassCtx_submit_command: push_front instead of push_back *)
GlobalPassCtx_submit_command_Front(g, command) ==
    [g EXCEPT !.command_queue =
        <<default_to(command, TargetWindow(g.window_id))>> \o @]

(* a mutant of GlobalPassCtx_submit_command: the target is not defaulted *)
GlobalPassCtx_submit_command_NoDefault(g, command) ==
    [g EXCEPT !.command_queue = Append(@, command)]

(* a mutant of GlobalPassCtx_submit_command: the command is not queued *)
GlobalPassCtx_submit_command_Drop(g, command) == g

(* GlobalPassCtx::submit_command *)
GlobalPassCtx_submit_command(g, command) ==
    [g EXCEPT !.command_queue =
        Append(@, default_to(command, TargetWindow(g.window_id)))]

(* GlobalPassCtx::submit_action *)
GlobalPassCtx_submit_action(g, action, widget_id) ==
    [g EXCEPT !.action_queue = Append(@, <<action, widget_id, g.window_id>>)]

NotPaint == {"WidgetCtx", "EventCtx", "LifeCycleCtx", "LayoutCtx"}

(* submit_command of the generic, event, lifecycle and layout views *)
submit_command(cmd) ==
    /\ Running
    /\ Top.kind \in NotPaint
    /\ IF CheckInitFails
       THEN check_init_panic("submit_command")
       ELSE /\ global_state' = GlobalPassCtx_submit_command(global_state, cmd)
            /\ hist' = [hist EXCEPT !.commands = Append(@, cmd),
                                    !.command_phases = Append(@, platform.phase)]
            /\ UNCHANGED <<debug_assertions, ctxs, panicked, widget_state,
                           platform, render_ctx>>

(* EventCtx::new_window: check_init, then submit_command of NEW_WINDOW *)
(* addressed to Target::Global                                         *)
new_window ==
    /\ Running
    /\ Top.kind = "EventCtx"
    /\ IF CheckInitFails
       THEN check_init_panic("new_window")
       ELSE submit_command(Command("NEW_WINDOW", TargetGlobal))

(* invalidate_text_input of the generic, event and lifecycle views:      *)
(* check_init, then submit_command of INVALIDATE_IME addressed to        *)
(* Target::Window(self.window_id())                                      *)
invalidate_text_input ==
    /\ Running
    /\ Top.kind \in {"WidgetCtx", "EventCtx", "LifeCycleCtx"}
    /\ IF CheckInitFails
       THEN check_init_panic("invalidate_text_input")
       ELSE submit_command(Command("INVALIDATE_IME",
                                   TargetWindow(global_state.window_id)))

(* submit_action of the generic, event, lifecycle and layout views *)
submit_action(action) ==
    /\ Running
    /\ Top.kind \in NotPaint
    /\ IF CheckInitFails
       THEN check_init_panic("submit_action")
       ELSE /\ global_state' = GlobalPassCtx_submit_action(
                                   global_state, action, widget_state[Cur].id)
            /\ hist' = [hist EXCEPT !.actions = Append(@, <<action, Cur>>)]
            /\ UNCHANGED <<debug_assertions, ctxs, panicked, widget_state,
                           platform, render_ctx>>

-----------------------------------------------------------------------------
(* Requests of the generic, event and lifecycle views *)

Requesting == {"WidgetCtx", "EventCtx", "LifeCycleCtx"}

(* the shape of an operation of these views that updates widget records: *)
(* check_init(name), then the update; new_hist records what was asked    *)
RequestLogged(name, new_widget_state, new_hist) ==
    /\ Running
    /\ Top.kind \in Requesting
    /\ IF CheckInitFails
       THEN check_init_panic(name)
       ELSE /\ widget_state' = new_widget_state
            /\ hist' = new_hist
            /\ UNCHANGED <<debug_assertions, ctxs, panicked, global_state,
                           platform, render_ctx>>

Request(name, new_widget_state) == RequestLogged(name, new_widget_state, hist)

(* the paint rectangle relative to the origin of the layout rectangle *)
local_paint_rect_of(ws) ==
    RectTranslate(paint_rect(ws),
                  [x |-> 0 - layout_rect(ws).x0, y |-> 0 - layout_rect(ws).y0])

(* request_paint: the invalid region is set to the paint rectangle, given *)
(* relative to the origin of the layout rectangle                         *)
request_paint ==
    RequestLogged("request_paint",
        [widget_state EXCEPT ![Cur].invalid =
            set_rect(@, local_paint_rect_of(widget_state[Cur]))],
        [hist EXCEPT !.repaints = @ \cup
            {[widget |-> Cur, rect |-> local_paint_rect_of(widget_state[Cur])]}])

(* a mutant of request_paint_rect: the rectangle is cut to the widget's size *)
request_paint_rect_Clipped(rect) ==
    RequestLogged("request_paint_rect",
        [widget_state EXCEPT ![Cur].invalid =
            add_rect(@, Rect(Max(rect.x0, 0), Max(rect.y0, 0),
                             Min(rect.x1, widget_state[Cur].size.w),
                             Min(rect.y1, widget_state[Cur].size.h)))],
        [hist EXCEPT !.repaints = @ \cup {[widget |-> Cur, rect |-> rect]}])

(* request_paint_rect *)
request_paint_rect(rect) ==
    RequestLogged("request_paint_rect",
        [widget_state EXCEPT ![Cur].invalid = add_rect(@, rect)],
        [hist EXCEPT !.repaints = @ \cup {[widget |-> Cur, rect |-> rect]}])

(* request_layout *)
request_layout ==
    Request("request_layout", [widget_state EXCEPT ![Cur].needs_layout = TRUE])

(* request_anim_frame *)
request_anim_frame ==
    Request("request_anim_frame", [widget_state EXCEPT ![Cur].request_anim = TRUE])

(* children_changed: sets the two flags, then request_layout *)
children_changed ==
    Request("children_changed",
            [widget_state EXCEPT ![Cur].children_changed = TRUE,
                                 ![Cur].update_focus_chain = TRUE,
                                 ![Cur].needs_layout = TRUE])

(* a mutant of set_disabled: the committed value is written *)
set_disabled_Committed(disabled) ==
    RequestLogged("set_disabled",
            [widget_state EXCEPT ![Cur].is_explicitly_disabled_new = disabled,
                                 ![Cur].is_explicitly_disabled = disabled],
            [hist EXCEPT !.disables[Cur] = Some(disabled)])

(* a mutant of set_disabled: the children-disabled-changed marker is set *)
set_disabled_Marks(disabled) ==
    RequestLogged("set_disabled",
            [widget_state EXCEPT ![Cur].is_explicitly_disabled_new = disabled,
                                 ![Cur].children_disabled_changed = TRUE],
            [hist EXCEPT !.disables[Cur] = Some(disabled)])

(* set_disabled: only the pending value is written *)
set_disabled(disabled) ==
    RequestLogged("set_disabled",
            [widget_state EXCEPT ![Cur].is_explicitly_disabled_new = disabled],
            [hist EXCEPT !.disables[Cur] = Some(disabled)])

(* a mutant of set_stashed: unstashing takes the parent's signals back *)
set_stashed_Undo(child, stashed) ==
    /\ Running
    /\ child \in ChildrenOf(Cur)
    /\ Request("set_stashed",
               [widget_state EXCEPT ![child].is_stashed = stashed,
                                    ![Cur].children_changed = stashed,
                                    ![Cur].update_focus_chain = stashed,
                                    ![Cur].needs_layout = stashed])

(* a mutant of set_stashed: children_changed is not called *)
set_stashed_FlagOnly(child, stashed) ==
    /\ Running
    /\ child \in ChildrenOf(Cur)
    /\ Request("set_stashed", [widget_state EXCEPT ![child].is_stashed = stashed])

(* set_stashed: the child's flag, then children_changed *)
set_stashed(child, stashed) ==
    /\ Running
    /\ child \in ChildrenOf(Cur)
    /\ Request("set_stashed",
               [widget_state EXCEPT ![child].is_stashed = stashed,
                                    ![Cur].children_changed = TRUE,
                                    ![Cur].update_focus_chain = TRUE,
                                    ![Cur].needs_layout = TRUE])

-----------------------------------------------------------------------------
(* The host run loop around the passes of one cycle: event or lifecycle   *)
(* handling, then the update pass, then the paint pass.  The command      *)
(* queue is drained after the handling pass and after the paint pass.     *)

(* the host takes every queued command, in queue order *)
drain_commands(after) ==
    [i \in 1..Len(global_state.command_queue) |->
        [command |-> global_state.command_queue[i], after |-> after]]

(* the handling pass is over: its commands are delivered, update starts *)
host_after_handling ==
    /\ PassOver
    /\ platform.phase = "handling"
    /\ platform' = [platform EXCEPT !.phase = "update", !.pass_no = @ + 1,
                                    !.delivered = @ \o drain_commands("handling")]
    /\ global_state' = [global_state EXCEPT !.command_queue = <<>>]
    /\ ctxs' = <<NewCtx("WidgetCtx", RootId, "pod", None, "clip", 0)>>
    /\ UNCHANGED <<debug_assertions, panicked, widget_state, render_ctx, hist>>

(* the update pass is over: the paint pass starts, nothing is delivered *)
host_after_update ==
    /\ PassOver
    /\ platform.phase = "update"
    /\ platform' = [platform EXCEPT !.phase = "paint", !.pass_no = @ + 1]
    /\ ctxs' = <<NewCtx("PaintCtx", RootId, "pod", None, "clip", 0)>>
    /\ UNCHANGED <<debug_assertions, panicked, widget_state, global_state,
                   render_ctx, hist>>

(* the paint pass is over: the commands queued since are delivered *)
host_after_paint ==
    /\ PassOver
    /\ platform.phase = "paint"
    /\ platform' = [platform EXCEPT !.phase = "idle",
                                    !.delivered = @ \o drain_commands("paint")]
    /\ global_state' = [global_state EXCEPT !.command_queue = <<>>]
    /\ UNCHANGED <<debug_assertions, ctxs, panicked, widget_state, render_ctx, hist>>

-----------------------------------------------------------------------------
(* The host starts a layout pass when the handling pass left the root in *)
(* need of layout; pointer is the pointer position it knows              *)
host_layout_pass(pointer) ==
    /\ PassOver
    /\ platform.phase = "handling"
    /\ widget_state[RootId].needs_layout
    /\ platform' = [platform EXCEPT !.phase = "layout", !.pass_no = @ + 1]
    /\ ctxs' = <<NewCtx("LayoutCtx", RootId, "pod", pointer, "clip", 0)>>
    /\ UNCHANGED <<debug_assertions, panicked, widget_state, global_state,
                   render_ctx, hist>>

-----------------------------------------------------------------------------
(* The driver commits the pending explicit-disabled values after a pass:  *)
(* each widget's committed value becomes the pending one and its          *)
(* ancestor_disabled the effective status of its parent; then the next    *)
(* pass starts.                                                           *)

RECURSIVE EffectiveAfterCommit(_)
EffectiveAfterCommit(w) ==
    \/ widget_state[w].is_explicitly_disabled_new
    \/ (w # RootId /\ EffectiveAfterCommit(ParentOf(w)))

DisabledPending ==
    \E w \in WidgetIds : widget_state[w].is_explicitly_disabled_new
                             # widget_state[w].is_explicitly_disabled

route_disabled_changed ==
    /\ PassOver
    /\ DisabledPending
    /\ widget_state' = [w \in WidgetIds |->
          [widget_state[w] EXCEPT
             !.is_explicitly_disabled = widget_state[w].is_explicitly_disabled_new,
             !.ancestor_disabled =
                 (w # RootId /\ EffectiveAfterCommit(ParentOf(w)))]]
    /\ ctxs' = <<NewCtx("EventCtx", RootId, "pod", None, "clip", 0)>>
    /\ platform' = [platform EXCEPT !.pass_no = @ + 1]
    /\ UNCHANGED <<debug_assertions, panicked, global_state, render_ctx, hist>>

-----------------------------------------------------------------------------
(* Background work *)

(* a result as it travels: the promise it resolves, tagged with the widget *)
(* and the window it is meant for                                          *)
PromiseResult(token, widget_id, window_id) ==
    [token |-> token, widget_id |-> widget_id, window_id |-> window_id]

(* ExtEventSink::resolve_promise: the result joins the queue the handle *)
(* and its clones share with the host, and the host is woken up          *)
ExtEventSink_resolve_promise(sink, token, widget_id, window_id) ==
    Append(sink, PromiseResult(token, widget_id, window_id))

IsPromiseResult(message) == "token" \in DOMAIN message

(* what a task of run_in_background posts through the handle it was given *)
ExtEventSink_submit_command(sink, thread) ==
    Append(sink, [thread |-> thread])

(* the thread of run_in_background, running background_task *)
Task(thread) == [thread |-> thread, pc |-> "background_task"]

(* run_in_background of the generic, event, lifecycle and layout views: *)
(* a spawned thread that owns a clone of the handle, nothing returned    *)
run_in_background ==
    /\ Running
    /\ Top.kind \in NotPaint
    /\ IF CheckInitFails
       THEN check_init_panic("run_in_background")
       ELSE /\ platform' = [platform EXCEPT
                  !.next_thread = @ + 1,
                  !.tasks = @ \cup {Task(platform.next_thread)}]
            /\ UNCHANGED <<debug_assertions, ctxs, panicked, widget_state,
                           global_state, render_ctx, hist>>

(* the task of run_in_background posts through its handle *)
task_posts(thread) ==
    /\ panicked = NoPanic
    /\ \E w \in platform.tasks :
          /\ w.thread = thread
          /\ w.pc = "background_task"
          /\ global_state' = [global_state EXCEPT !.ext_event_sink =
                ExtEventSink_submit_command(@, w.thread)]
          /\ platform' = [platform EXCEPT
                !.tasks = (@ \ {w}) \cup {[w EXCEPT !.pc = "posted"]}]
          /\ hist' = [hist EXCEPT !.posts = Append(@, [thread |-> w.thread])]
    /\ UNCHANGED <<debug_assertions, ctxs, panicked, widget_state, render_ctx>>

(* the task of run_in_background returns: its thread ends *)
task_returns(thread) ==
    /\ panicked = NoPanic
    /\ \E w \in platform.tasks :
          /\ w.thread = thread
          /\ platform' = [platform EXCEPT !.tasks = @ \ {w}]
    /\ UNCHANGED <<debug_assertions, ctxs, panicked, widget_state,
                   global_state, render_ctx, hist>>

(* the thread of compute_in_background before background_task returns *)
Worker(token, widget_id, window_id) ==
    [token |-> token, widget_id |-> widget_id, window_id |-> window_id,
     pc |-> "background_task"]

(* a mutant of compute_in_background: the worker tags with the root's id *)
compute_in_background_RootTag ==
    /\ Running
    /\ Top.kind \in NotPaint
    /\ IF CheckInitFails
       THEN check_init_panic("compute_in_background")
       ELSE LET token == platform.next_promise
            IN  /\ platform' = [platform EXCEPT
                      !.next_promise = @ + 1,
                      !.workers = @ \cup {Worker(token, widget_state[RootId].id,
                                                 global_state.window_id)}]
                /\ hist' = [hist EXCEPT !.promises = Append(@,
                      [token |-> token, caller |-> Cur,
                       window_id |-> global_state.window_id,
                       pass_no |-> platform.pass_no])]
                /\ UNCHANGED <<debug_assertions, ctxs, panicked, widget_state,
                               global_state, render_ctx>>

(* compute_in_background of the generic, event, lifecycle and layout views: *)
(* a fresh token, a spawned thread, and the token is returned               *)
compute_in_background ==
    /\ Running
    /\ Top.kind \in NotPaint
    /\ IF CheckInitFails
       THEN check_init_panic("compute_in_background")
       ELSE LET token == platform.next_promise
            IN  /\ platform' = [platform EXCEPT
                      !.next_promise = @ + 1,
                      !.workers = @ \cup {Worker(token, widget_state[Cur].id,
                                                 global_state.window_id)}]
                /\ hist' = [hist EXCEPT !.promises = Append(@,
                      [token |-> token, caller |-> Cur,
                       window_id |-> global_state.window_id,
                       pass_no |-> platform.pass_no])]
                /\ UNCHANGED <<debug_assertions, ctxs, panicked, widget_state,
                               global_state, render_ctx>>

(* the spawned thread: background_task returned its result *)
worker_task_returns(token) ==
    /\ panicked = NoPanic
    /\ \E w \in platform.workers :
          /\ w.token = token
          /\ w.pc = "background_task"
          /\ platform' = [platform EXCEPT
                !.workers = (@ \ {w}) \cup {[w EXCEPT !.pc = "resolve_promise"]}]
    /\ UNCHANGED <<debug_assertions, ctxs, panicked, widget_state,
                   global_state, render_ctx, hist>>

(* a mutant of worker_resolve_promise: the thread marks the widget's *)
(* record itself                                                     *)
worker_resolve_promise_Direct(token) ==
    /\ panicked = NoPanic
    /\ \E w \in platform.workers :
          /\ w.token = token
          /\ w.pc = "resolve_promise"
          /\ widget_state' = [widget_state EXCEPT
                                 ![w.widget_id].needs_layout = TRUE]
          /\ platform' = [platform EXCEPT !.workers = @ \ {w}]
          /\ hist' = [hist EXCEPT !.posts = Append(@,
                PromiseResult(w.token, w.widget_id, w.window_id))]
    /\ UNCHANGED <<debug_assertions, ctxs, panicked, global_state, render_ctx>>

(* a mutant of worker_resolve_promise: results are posted in the order *)
(* their threads were spawned                                           *)
worker_resolve_promise_InOrder(token) ==
    /\ panicked = NoPanic
    /\ \E w \in platform.workers :
          /\ w.token = token
          /\ w.pc = "resolve_promise"
          /\ \A v \in platform.workers : v.token >= w.token
          /\ global_state' = [global_state EXCEPT !.ext_event_sink =
                ExtEventSink_resolve_promise(@, w.token, w.widget_id, w.window_id)]
          /\ platform' = [platform EXCEPT !.workers = @ \ {w}]
          /\ hist' = [hist EXCEPT !.posts = Append(@,
                PromiseResult(w.token, w.widget_id, w.window_id))]
    /\ UNCHANGED <<debug_assertions, ctxs, panicked, widget_state, render_ctx>>

(* the spawned thread: the result is posted through the handle's clone, *)
(* what the post returns is dropped, the thread ends                     *)
worker_resolve_promise(token) ==
    /\ panicked = NoPanic
    /\ \E w \in platform.workers :
          /\ w.token = token
          /\ w.pc = "resolve_promise"
          /\ global_state' = [global_state EXCEPT !.ext_event_sink =
                ExtEventSink_resolve_promise(@, w.token, w.widget_id, w.window_id)]
          /\ platform' = [platform EXCEPT !.workers = @ \ {w}]
          /\ hist' = [hist EXCEPT !.posts = Append(@,
                PromiseResult(w.token, w.widget_id, w.window_id))]
    /\ UNCHANGED <<debug_assertions, ctxs, panicked, widget_state, render_ctx>>

(* the woken host, between passes: it takes what the handle's queue holds *)
(* and starts a pass that carries each result to the widget it is tagged  *)
(* with                                                                    *)
host_run_ext_events ==
    /\ PassOver
    /\ global_state.ext_event_sink # <<>>
    /\ LET queue == SelectSeq(global_state.ext_event_sink, IsPromiseResult)
       IN  hist' = [hist EXCEPT !.resolved = @ \o
              [i \in 1..Len(queue) |->
                  [token |-> queue[i].token, widget |-> queue[i].widget_id,
                   window_id |-> queue[i].window_id,
                   pass_no |-> platform.pass_no + 1]]]
    /\ global_state' = [global_state EXCEPT !.ext_event_sink = <<>>]
    /\ platform' = [platform EXCEPT !.pass_no = @ + 1]
    /\ ctxs' = <<NewCtx("EventCtx", RootId, "pod", None, "clip", 0)>>
    /\ UNCHANGED <<debug_assertions, panicked, widget_state, render_ctx>>

-----------------------------------------------------------------------------
(* Timers *)

(* HashMap::insert *)
MapInsert(m, k, v) == [x \in DOMAIN m \cup {k} |-> IF x = k THEN v ELSE m[x]]

MockInstalled(g) == g.mock_timer_queue # None
TheMock(g) == CHOOSE q \in g.mock_timer_queue : TRUE

(* MockTimerQueue::add_timer: the deadline counts from the mock's current time *)
add_timer(q, duration, token) ==
    [q EXCEPT !.queue = @ \cup {[deadline |-> q.current_time + duration,
                                 token |-> token]}]

(* a mutant of GlobalPassCtx_request_timer: the mock timer source is ignored *)
GlobalPassCtx_request_timer_Platform(duration, widget_id) ==
    LET timer_token == platform.next_token IN
    /\ platform' = [platform EXCEPT
                      !.next_token = @ + 1,
                      !.timers = @ \cup {[token |-> timer_token,
                                          duration |-> duration]}]
    /\ global_state' = [global_state EXCEPT
                          !.timers = MapInsert(@, timer_token, widget_id)]
    /\ hist' = [hist EXCEPT !.issued = Append(@,
                   [token |-> timer_token, widget |-> widget_id,
                    duration |-> duration,
                    at |-> IF MockInstalled(global_state)
                           THEN TheMock(global_state).current_time ELSE 0])]

(* a mutant of GlobalPassCtx_request_timer: the token is not recorded *)
GlobalPassCtx_request_timer_NoInsert(duration, widget_id) ==
    LET timer_token == platform.next_token IN
    /\ IF MockInstalled(global_state)
       THEN /\ platform' = [platform EXCEPT !.next_token = @ + 1]
            /\ global_state' = [global_state EXCEPT
                  !.mock_timer_queue =
                      Some(add_timer(TheMock(global_state), duration, timer_token))]
       ELSE /\ platform' = [platform EXCEPT
                              !.next_token = @ + 1,
                              !.timers = @ \cup {[token |-> timer_token,
                                                  duration |-> duration]}]
            /\ UNCHANGED global_state
    /\ hist' = [hist EXCEPT !.issued = Append(@,
                   [token |-> timer_token, widget |-> widget_id,
                    duration |-> duration,
                    at |-> IF MockInstalled(global_state)
                           THEN TheMock(global_state).current_time ELSE 0])]

(* a mutant of GlobalPassCtx_request_timer: the map is keyed by the wrong token *)
GlobalPassCtx_request_timer_WrongKey(duration, widget_id) ==
    LET timer_token == platform.next_token IN
    /\ IF MockInstalled(global_state)
       THEN /\ platform' = [platform EXCEPT !.next_token = @ + 1]
            /\ global_state' = [global_state EXCEPT
                  !.mock_timer_queue =
                      Some(add_timer(TheMock(global_state), duration, timer_token)),
                  !.timers = MapInsert(@, timer_token + 1, widget_id)]
       ELSE /\ platform' = [platform EXCEPT
                              !.next_token = @ + 1,
                              !.timers = @ \cup {[token |-> timer_token,
                                                  duration |-> duration]}]
            /\ global_state' = [global_state EXCEPT
                  !.timers = MapInsert(@, timer_token + 1, widget_id)]
    /\ hist' = [hist EXCEPT !.issued = Append(@,
                   [token |-> timer_token, widget |-> widget_id,
                    duration |-> duration,
                    at |-> IF MockInstalled(global_state)
                           THEN TheMock(global_state).current_time ELSE 0])]

(* GlobalPassCtx::request_timer.  The token comes from TimerToken::next()   *)
(* (platform.next_token) through the mock timer queue when one is           *)
(* installed, through the window otherwise; then timers.insert.             *)
GlobalPassCtx_request_timer(duration, widget_id) ==
    LET timer_token == platform.next_token IN
    /\ IF MockInstalled(global_state)
       THEN /\ platform' = [platform EXCEPT !.next_token = @ + 1]
            /\ global_state' = [global_state EXCEPT
                  !.mock_timer_queue =
                      Some(add_timer(TheMock(global_state), duration, timer_token)),
                  !.timers = MapInsert(@, timer_token, widget_id)]
       ELSE /\ platform' = [platform EXCEPT
                              !.next_token = @ + 1,
                              !.timers = @ \cup {[token |-> timer_token,
                                                  duration |-> duration]}]
            /\ global_state' = [global_state EXCEPT
                  !.timers = MapInsert(@, timer_token, widget_id)]
    /\ hist' = [hist EXCEPT !.issued = Append(@,
                   [token |-> timer_token, widget |-> widget_id,
                    duration |-> duration,
                    at |-> IF MockInstalled(global_state)
                           THEN TheMock(global_state).current_time ELSE 0])]

(* request_timer of the generic, event, lifecycle and layout views *)
request_timer(deadline) ==
    /\ Running
    /\ Top.kind \in NotPaint
    /\ IF CheckInitFails
       THEN check_init_panic("request_timer")
       ELSE /\ GlobalPassCtx_request_timer(deadline, widget_state[Cur].id)
            /\ UNCHANGED <<debug_assertions, ctxs, panicked, widget_state,
                           render_ctx>>

(* the tokens of a set of queue entries in firing order (deadline, token) *)
RECURSIVE DueOrder(_)
DueOrder(es) ==
    IF es = {} THEN <<>>
    ELSE LET e == CHOOSE a \in es : \A b \in es :
                      \/ a.deadline < b.deadline
                      \/ (a.deadline = b.deadline /\ a.token <= b.token)
         IN <<e.token>> \o DueOrder(es \ {e})

(* the driver routes Event::Timer(token) to the widget the map names; a    *)
(* token that is not a key of the map is reported to no widget             *)
RECURSIVE Deliveries(_, _, _, _)
Deliveries(tokens, timers, before, now) ==
    IF tokens = <<>> THEN <<>>
    ELSE (IF Head(tokens) \in DOMAIN timers
          THEN <<[token |-> Head(tokens), widget |-> timers[Head(tokens)],
                  before |-> before, at |-> now]>>
          ELSE <<>>) \o Deliveries(Tail(tokens), timers, before, now)

(* Harness::move_timers_forward: MockTimerQueue::move_forward, then every *)
(* due token is sent as a timer event                                     *)
move_timers_forward(duration) ==
    /\ PassOver
    /\ MockInstalled(global_state)
    /\ LET q == TheMock(global_state)
           now == q.current_time + duration
           due == {e \in q.queue : e.deadline <= now}
       IN  /\ global_state' = [global_state EXCEPT !.mock_timer_queue =
                  Some([current_time |-> now, queue |-> q.queue \ due])]
           /\ hist' = [hist EXCEPT !.delivered =
                  @ \o Deliveries(DueOrder(due), global_state.timers,
                                  q.current_time, now)]
    /\ UNCHANGED <<debug_assertions, ctxs, panicked, widget_state, platform,
                   render_ctx>>

(* the platform reports that the timer with this token fired *)
platform_timer_fired(token) ==
    /\ PassOver
    /\ ~MockInstalled(global_state)
    /\ token \notin {hist.fired[i] : i \in 1..Len(hist.fired)}
    /\ platform' = [platform EXCEPT !.timers = {t \in @ : t.token # token}]
    /\ hist' = [hist EXCEPT
                  !.fired = Append(@, token),
                  !.delivered = @ \o Deliveries(<<token>>, global_state.timers, 0, 0)]
    /\ UNCHANGED <<debug_assertions, ctxs, panicked, widget_state, global_state,
                   render_ctx>>

-----------------------------------------------------------------------------
(* LayoutCtx *)

(* WidgetPod::update_hot_state: the child is hot iff the pointer position is *)
(* known and lies in its layout rectangle; reports whether that changed      *)
update_hot_state(child, rect, mouse_pos) ==
    LET had_hot == child.is_hot
        is_hot == \E p \in mouse_pos : RectContains(rect, p)
    IN  <<[child EXCEPT !.is_hot = is_hot], had_hot # is_hot>>

(* a mutant of place_child: the hot state is tested against the rectangle *)
(* the child had before it was moved                                     *)
place_child_StaleRect(child, origin) ==
    /\ Running
    /\ Top.kind = "LayoutCtx"
    /\ child \in ChildrenOf(Cur)
    /\ LET layout == layout_rect(widget_state[child])
           placed == [widget_state[child] EXCEPT
                        !.origin = origin,
                        !.is_expecting_place_child_call = FALSE]
           parent == [widget_state[Cur] EXCEPT
                        !.local_paint_rect = RectUnion(@, paint_rect(placed))]
           hot == update_hot_state(placed, layout, Top.mouse_pos)
           merged == merge_up(parent, hot[1])
       IN  widget_state' = [widget_state EXCEPT
                              ![Cur] = IF hot[2] THEN merged[1] ELSE parent,
                              ![child] = IF hot[2] THEN merged[2] ELSE hot[1]]
    /\ UNCHANGED <<debug_assertions, ctxs, panicked, global_state, platform,
                   render_ctx, hist>>

(* a mutant of set_paint_insets: the insets are stored as given *)
set_paint_insets_Raw(insets) ==
    /\ Running
    /\ Top.kind = "LayoutCtx"
    /\ IF CheckInitFails
       THEN check_init_panic("set_paint_insets")
       ELSE /\ widget_state' = [widget_state EXCEPT ![Cur].paint_insets = insets]
            /\ hist' = [hist EXCEPT !.insets = @ \cup {insets}]
            /\ UNCHANGED <<debug_assertions, ctxs, panicked, global_state,
                           platform, render_ctx>>

(* LayoutCtx::set_paint_insets *)
set_paint_insets(insets) ==
    /\ Running
    /\ Top.kind = "LayoutCtx"
    /\ IF CheckInitFails
       THEN check_init_panic("set_paint_insets")
       ELSE /\ widget_state' = [widget_state EXCEPT
                                  ![Cur].paint_insets = nonnegative(insets)]
            /\ hist' = [hist EXCEPT !.insets = @ \cup {insets}]
            /\ UNCHANGED <<debug_assertions, ctxs, panicked, global_state,
                           platform, render_ctx>>

(* a mutant of place_child: a stashed child is never made hot *)
place_child_SkipStashed(child, origin) ==
    /\ Running
    /\ Top.kind = "LayoutCtx"
    /\ child \in ChildrenOf(Cur)
    /\ LET placed == [widget_state[child] EXCEPT
                        !.origin = origin,
                        !.is_expecting_place_child_call = FALSE]
           layout == layout_rect(placed)
           parent == [widget_state[Cur] EXCEPT
                        !.local_paint_rect = RectUnion(@, paint_rect(placed))]
           hot == update_hot_state(placed, layout,
                                   IF placed.is_stashed THEN None ELSE Top.mouse_pos)
           merged == merge_up(parent, hot[1])
       IN  widget_state' = [widget_state EXCEPT
                              ![Cur] = IF hot[2] THEN merged[1] ELSE parent,
                              ![child] = IF hot[2] THEN merged[2] ELSE hot[1]]
    /\ UNCHANGED <<debug_assertions, ctxs, panicked, global_state, platform,
                   render_ctx, hist>>

(* a mutant of place_child: the child is merged whatever update_hot_state *)
(* reports                                                                *)
place_child_AlwaysMerge(child, origin) ==
    /\ Running
    /\ Top.kind = "LayoutCtx"
    /\ child \in ChildrenOf(Cur)
    /\ LET placed == [widget_state[child] EXCEPT
                        !.origin = origin,
                        !.is_expecting_place_child_call = FALSE]
           layout == layout_rect(placed)
           parent == [widget_state[Cur] EXCEPT
                        !.local_paint_rect = RectUnion(@, paint_rect(placed))]
           hot == update_hot_state(placed, layout, Top.mouse_pos)
           merged == merge_up(parent, hot[1])
       IN  widget_state' = [widget_state EXCEPT
                              ![Cur] = merged[1],
                              ![child] = merged[2]]
    /\ UNCHANGED <<debug_assertions, ctxs, panicked, global_state, platform,
                   render_ctx, hist>>

(* LayoutCtx::place_child *)
place_child(child, origin) ==
    /\ Running
    /\ Top.kind = "LayoutCtx"
    /\ child \in ChildrenOf(Cur)
    /\ LET placed == [widget_state[child] EXCEPT
                        !.origin = origin,
                        !.is_expecting_place_child_call = FALSE]
           layout == layout_rect(placed)
           parent == [widget_state[Cur] EXCEPT
                        !.local_paint_rect = RectUnion(@, paint_rect(placed))]
           hot == update_hot_state(placed, layout, Top.mouse_pos)
           merged == merge_up(parent, hot[1])
       IN  widget_state' = [widget_state EXCEPT
                              ![Cur] = IF hot[2] THEN merged[1] ELSE parent,
                              ![child] = IF hot[2] THEN merged[2] ELSE hot[1]]
    /\ UNCHANGED <<debug_assertions, ctxs, panicked, global_state, platform,
                   render_ctx, hist>>

-----------------------------------------------------------------------------
(* Initial states *)

NoHistory ==
    [visits |-> <<>>, focus_calls |-> <<>>, scheduled |-> <<>>, issued |-> <<>>,
     fired |-> <<>>, command_phases |-> <<>>, insets |-> {},
     repaints |-> {}, saves |-> <<>>,
     disables |-> [w \in WidgetIds |-> None], promises |-> <<>>, posts |-> <<>>, resolved |-> <<>>,
     delivered |-> <<>>, commands |-> <<>>, actions |-> <<>>, logged |-> {},
     answers |-> <<>>]

NoMock == None
MockAt(t) == Some([current_time |-> t, queue |-> {}])

(* The state when the driver has built the root's view of a pass and calls *)
(* the root widget's handler: the view is inactive, the queues are empty.  *)
(* pending: for each widget, whether an earlier pass left it needs_layout; *)
(* pointers: the pointer positions a layout pass may know.                 *)
PassStartFrom(kinds, builds, focuses, mocks, calls, pending, pointers) ==
    /\ budget = calls
    /\ debug_assertions \in builds
    /\ \E kind \in kinds :
       \E mouse \in (IF kind = "LayoutCtx" THEN pointers ELSE {None}) :
          ctxs = <<NewCtx(kind, RootId, "pod", mouse, "clip", 0)>>
    /\ panicked = NoPanic
    /\ \E focus \in focuses, mock \in mocks :
          /\ \E dirty \in pending :
                widget_state = [w \in WidgetIds |->
                   [NewWidgetState(w, focus) EXCEPT !.needs_layout = dirty[w]]]
          /\ global_state = [command_queue |-> <<>>,
                             action_queue |-> <<>>,
                             timers |-> <<>>,
                             mock_timer_queue |-> mock,
                             window_id |-> 1,
                             ext_event_sink |-> <<>>,
                             focus_widget |-> focus]
    /\ platform = [next_token |-> 1, timers |-> {},
                   phase |-> "handling", delivered |-> <<>>,
                   pass_no |-> 1, next_promise |-> 1, workers |-> {},
                   next_thread |-> 1, tasks |-> {}]
    /\ render_ctx = [transform |-> 0, saved |-> <<>>, drawn |-> <<>>]
    /\ hist = NoHistory

NothingPending == {[w \in WidgetIds |-> FALSE]}
ChildrenPending == {[w \in WidgetIds |-> w # RootId]}
AnyPointer == {None} \cup {Some(p) : p \in Points}
CornerPointers == {None, Some([x |-> 0, y |-> 0]),
                   Some([x |-> MaxCoord, y |-> MaxCoord])}

PassStart(kinds, builds, focuses, mocks, calls) ==
    PassStartFrom(kinds, builds, focuses, mocks, calls, NothingPending, AnyPointer)

(* insets with components of both signs *)
InsetsInputs == {Insets(a, b, 0 - a, b) : a, b \in {0 - 1, 1}}

(* rectangles relative to the widget's layout rectangle: inside it, partly *)
(* outside, wholly outside, and without area                               *)
XSpans == {<<0 - 1, 0>>, <<0, 1>>, <<0, 2>>, <<1, 1>>}
DirtyRects == {Rect(xs[1], y0, xs[2], y0 + 1) : xs \in XSpans, y0 \in {0, 1}}

AnyFocus == {None} \cup {Some(w) : w \in WidgetIds}
Durations == 1..MaxDuration
Commands == {Command(sel, t) : sel \in Selectors,
                               t \in {TargetAuto, TargetGlobal, TargetWindow(2)}}

-----------------------------------------------------------------------------
(* A step of a handler that calls an operation of its view, and a step of  *)
(* the driver.  The actions above leave budget to these two.               *)
Call(A) == budget > 0 /\ budget' = budget - 1 /\ A
Drive(A) == A /\ UNCHANGED budget

-----------------------------------------------------------------------------
(* The activation protocol: a debug build, any view, and what a handler can *)
(* do with a view that has not been activated                               *)

Init == PassStart(CtxKinds, {TRUE}, {None}, {NoMock}, MaxMisuses)

Inactive == ctxs # <<>> /\ ~Top.is_init

Next ==
    \/ Call(init)
    \/ \E q \in QueriesOf("EventCtx") \cup QueriesOf("PaintCtx") :
          Inactive /\ Call(Query(q))
    \/ \E c \in WidgetIds : Inactive /\ Call(skip_child(c))
    \/ \E c \in WidgetIds : Inactive /\ Call(register_child(c))
    \/ Inactive /\ Call(request_pan_to_this)
    \/ \E c \in WidgetIds, o \in Points : Inactive /\ Call(place_child(c, o))
    \/ \E r \in Regions : Inactive /\ Call(with_child_ctx(r))
    \/ Inactive /\ Drive(with_child_ctx_return)
    \/ \E ok \in BOOLEAN : Inactive /\ Call(with_save(ok))
    \/ \E ok \in BOOLEAN : Inactive /\ Drive(with_save_return(ok))
    \/ \E z \in ZIndices :
          Inactive /\ Call(paint_with_z_index(z, Len(hist.scheduled) + 1))
    \/ Inactive /\ Call(request_focus)
    \/ \E t \in WidgetIds : Inactive /\ Call(set_focus(t))
    \/ Inactive /\ Call(focus_next)
    \/ Inactive /\ Call(focus_prev)
    \/ Inactive /\ Call(resign_focus)
    \/ Inactive /\ Call(set_handled)
    \/ \E cmd \in Commands : Inactive /\ Call(submit_command(cmd))
    \/ \E a \in Actions : Inactive /\ Call(submit_action(a))
    \/ Inactive /\ Call(new_window)
    \/ Inactive /\ Call(request_paint)
    \/ \E r \in DirtyRects : Inactive /\ Call(request_paint_rect(r))
    \/ Inactive /\ Call(request_layout)
    \/ Inactive /\ Call(request_anim_frame)
    \/ Inactive /\ Call(children_changed)
    \/ \E d \in BOOLEAN : Inactive /\ Call(set_disabled(d))
    \/ \E c \in WidgetIds, st \in BOOLEAN : Inactive /\ Call(set_stashed(c, st))
    \/ \E i \in InsetsInputs : Inactive /\ Call(set_paint_insets(i))
    \/ Inactive /\ Call(compute_in_background)
    \/ Inactive /\ Call(run_in_background)
    \/ Inactive /\ Call(register_as_portal)
    \/ Inactive /\ Call(invalidate_text_input)
    \/ \E d \in Durations : Inactive /\ Call(request_timer(d))

Spec == Init /\ [][Next]_vars

-----------------------------------------------------------------------------
(* Claims about the activation protocol, checked under Spec *)

Aborted == panicked # NoPanic
IsCall == budget' < budget

(* C1: in a debug build, init() on an inactive view of any kind makes it   *)
(* active without aborting, and init() on an active view aborts and leaves *)
(* the views as they were.                                                 *)
C1_InitOnceThenAbort ==
    [][(debug_assertions /\ init) =>
          IF Top.is_init
          THEN Aborted' /\ UNCHANGED ctxs
          ELSE ~Aborted' /\ ctxs'[Len(ctxs')].is_init
              /\ Len(ctxs') = Len(ctxs)]_vars

(* a view that was activated and then aborted on its second init() *)
C1_Witness ==
    /\ debug_assertions
    /\ ctxs # <<>>
    /\ Top.is_init
    /\ \E d \in panicked : d.panic \in {"initialized multiple times", "unreachable"}

(* C2: in a debug build, every operation other than init that is called on *)
(* an inactive view aborts and changes neither a widget record nor the     *)
(* shared pass state.                                                      *)
C2_InactiveCallAborts ==
    [][(debug_assertions /\ Inactive /\ IsCall /\ ~init) =>
          Aborted' /\ UNCHANGED <<widget_state, global_state>>]_vars

(* the step A of the operation called name failed the activation check *)
(* and the diagnostic of the abort names the view, name and the widget  *)
Blames(A, name) ==
    (A /\ CheckInitFails) =>
       \E d \in panicked' :
          /\ d.ctx_name = ctx_name(Top)
          /\ d.ctx_method_name = name
          /\ d.widget_id = widget_state[Cur].id
          /\ d.widget_name = WidgetName(Cur)

(* C27: in a debug build, the diagnostic of a guarded operation called on *)
(* an inactive view names the kind of the view, the operation that was    *)
(* called, and the id and the type name of the view's widget.             *)
C27_DiagnosticNamesOperation ==
    [][/\ Blames(request_paint, "request_paint")
       /\ \A r \in DirtyRects : Blames(request_paint_rect(r), "request_paint_rect")
       /\ Blames(request_layout, "request_layout")
       /\ Blames(request_anim_frame, "request_anim_frame")
       /\ Blames(children_changed, "children_changed")
       /\ \A d \in BOOLEAN : Blames(set_disabled(d), "set_disabled")
       /\ \A c \in WidgetIds, st \in BOOLEAN :
             Blames(set_stashed(c, st), "set_stashed")
       /\ Blames(invalidate_text_input, "invalidate_text_input")
       /\ \A cmd \in Commands : Blames(submit_command(cmd), "submit_command")
       /\ \A a \in Actions : Blames(submit_action(a), "submit_action")
       /\ Blames(run_in_background, "run_in_background")
       /\ Blames(compute_in_background, "compute_in_background")
       /\ \A d \in Durations : Blames(request_timer(d), "request_timer")
       /\ Blames(new_window, "new_window")
       /\ Blames(set_handled, "set_handled")
       /\ Blames(request_focus, "request_focus")
       /\ \A t \in WidgetIds : Blames(set_focus(t), "set_focus")
       /\ Blames(focus_next, "focus_next")
       /\ Blames(focus_prev, "focus_prev")
       /\ Blames(resign_focus, "resign_focus")
       /\ \A i \in InsetsInputs : Blames(set_paint_insets(i), "set_paint_insets")
       /\ Blames(register_as_portal, "register_as_portal")]_vars

-----------------------------------------------------------------------------
(* A paint pass: the root widget's paint handler paints, nests visible     *)
(* regions and defers operations; then the driver runs the deferred ones   *)

InitPaint == PassStart({"PaintCtx"}, BOOLEAN, {None}, {NoMock}, MaxPaintCalls)

NextPaint ==
    \/ Drive(init)
    \/ \E t \in Transforms : Call(transform(t))
    \/ \E z \in ZIndices : Call(paint_with_z_index(z, Len(hist.scheduled) + 1))
    \/ \E r \in Regions : Call(with_child_ctx(r))
    \/ Drive(with_child_ctx_return)
    \/ \E ok \in BOOLEAN : Call(with_save(ok))
    \/ \E ok \in BOOLEAN : Drive(with_save_return(ok))
    \/ Drive(paint_finish)

SpecPaint == InitPaint /\ [][NextPaint]_vars

ScheduledOps == [i \in 1..Len(hist.scheduled) |-> hist.scheduled[i].op]
ZOf(s) == [i \in 1..Len(s) |-> s[i].z_index]
FuncOf(s) == [i \in 1..Len(s) |-> s[i].paint_func]

(* C3: the deferred operations run only after the traversal, each once, in *)
(* ascending z_index order, and operations of equal z_index run in the     *)
(* order in which they were scheduled.                                     *)
C3_DeferredRunInZOrder ==
    LET drawn == render_ctx.drawn
        z(i) == hist.scheduled[drawn[i].paint_func].op.z_index
    IN  /\ ctxs # <<>> => drawn = <<>>
        /\ PassOver =>
             /\ Len(drawn) = Len(hist.scheduled)
             /\ {drawn[i].paint_func : i \in 1..Len(drawn)} = 1..Len(hist.scheduled)
             /\ \A i, j \in 1..Len(drawn) :
                   i < j => \/ z(i) < z(j)
                            \/ (z(i) = z(j) /\ drawn[i].paint_func < drawn[j].paint_func)

(* priorities scheduled as [5, 0, 3] have run as [0, 3, 5] *)
C3_Witness ==
    /\ PassOver
    /\ ZOf(ScheduledOps) = <<5, 0, 3>>
    /\ FuncOf(render_ctx.drawn) = <<2, 3, 1>>

(* C24: a paint_with_z_index call draws nothing and leaves the render    *)
(* context alone; it appends one record to the deferred list of the view *)
(* it is called on and changes no other view; once the pass is over,     *)
(* every scheduled closure has run exactly once, under the transform     *)
(* that was current when it was scheduled.                               *)
C24_DeferredKeepsCallTimeTransform ==
    /\ [][\A z \in ZIndices, f \in 1..(MaxPaintCalls + 1) :
            paint_with_z_index(z, f) =>
               /\ render_ctx' = render_ctx
               /\ Len(ctxs') = Len(ctxs)
               /\ \A i \in 1..(Len(ctxs) - 1) : ctxs'[i] = ctxs[i]
               /\ ctxs'[Len(ctxs)].z_ops =
                     Append(Top.z_ops, ZOrderPaintOp(z, f, render_ctx.transform))]_vars
    /\ [](PassOver =>
            \A k \in 1..Len(hist.scheduled) :
               /\ Cardinality({i \in 1..Len(render_ctx.drawn) :
                                 render_ctx.drawn[i].paint_func = k}) = 1
               /\ \A i \in 1..Len(render_ctx.drawn) :
                     render_ctx.drawn[i].paint_func = k =>
                        render_ctx.drawn[i].transform = hist.scheduled[k].at)

(* a closure scheduled under one transform has run under it although the *)
(* transform was changed before the pass ended                           *)
C24_Witness ==
    /\ PassOver
    /\ \E k \in 1..Len(hist.scheduled) :
          /\ hist.scheduled[k].at # render_ctx.transform
          /\ hist.scheduled[k].at # 0
          /\ \E i \in 1..Len(render_ctx.drawn) :
                /\ render_ctx.drawn[i].paint_func = k
                /\ render_ctx.drawn[i].transform = hist.scheduled[k].at

CountOf(log, what) == Cardinality({i \in 1..Len(log) : log[i] \in what})
RECURSIVE OpenSaves(_)
OpenSaves(views) ==
    IF views = <<>> THEN 0 ELSE Head(views).open_saves + OpenSaves(Tail(views))

(* C19: with_save and the return from its closure never abort; a failed   *)
(* save changes neither the views nor the render context (the closure is   *)
(* not entered); the closures entered are exactly the successful saves,    *)
(* each is left by exactly one restore attempt, and a restore is attempted *)
(* only for a closure that was entered.                                    *)
C19_WithSaveNeverAborts ==
    /\ [][\A ok \in BOOLEAN :
            /\ with_save(ok) =>
                  /\ ~Aborted'
                  /\ ~ok => UNCHANGED <<ctxs, render_ctx>>
            /\ with_save_return(ok) => ~Aborted']_vars
    /\ [](/\ CountOf(hist.saves, {"save_ok"})
             = OpenSaves(ctxs) + CountOf(hist.saves, {"restore_ok", "restore_err"})
          /\ PassOver =>
                CountOf(hist.saves, {"save_ok"})
                   = CountOf(hist.saves, {"restore_ok", "restore_err"}))

(* a failed save, then a successful one whose restore failed: the pass *)
(* went on to its end                                                  *)
C19_Witness ==
    /\ PassOver
    /\ hist.saves = <<"save_err", "save_ok", "restore_err">>
    /\ Len(hist.scheduled) >= 1

(* C4: whenever the root paint view is the current one again, its deferred *)
(* list holds every operation scheduled so far, at any nesting level,      *)
(* exactly once and in scheduling order.                                   *)
C4_NestedOpsReachRoot ==
    Len(ctxs) = 1 => Top.z_ops = ScheduledOps

(* an operation of the parent, one of a nested view, one of the parent again *)
C4_Witness ==
    /\ Len(ctxs) = 1
    /\ Top.z_ops = ScheduledOps
    /\ \E i, j, k \in 1..Len(hist.scheduled) :
          /\ i < j /\ j < k
          /\ hist.scheduled[i].depth = 0
          /\ hist.scheduled[j].depth > 0
          /\ hist.scheduled[k].depth = 0

-----------------------------------------------------------------------------
(* An event pass in which the widgets' handlers ask for focus changes *)

InitEvent == PassStart({"EventCtx"}, BOOLEAN, AnyFocus, {NoMock}, MaxFocusCalls)

NextEvent ==
    \/ Drive(init)
    \/ \E c \in WidgetIds : Drive(pod_enter(c))
    \/ Drive(pod_return)
    \/ Drive(pass_end)
    \/ Call(request_focus)
    \/ \E t \in WidgetIds : Call(set_focus(t))
    \/ Call(focus_next)
    \/ Call(focus_prev)
    \/ Call(resign_focus)

SpecEvent == InitEvent /\ [][NextEvent]_vars

FocusCalls == hist.focus_calls
LastFocusCall == FocusCalls[Len(FocusCalls)]

(* the focus change the driver resolves after the pass: the root's request *)
ResolvedFocusChange == widget_state[RootId].request_focus

(* a focus call records its request unless it is focus_next, focus_prev or *)
(* resign_focus by a widget without focus                                  *)
RecordsRequest(call) ==
    \/ call.op \in {"request_focus", "set_focus"}
    \/ widget_state[call.widget].has_focus

(* the driver built a's view before b's: the root's first, then the order *)
(* of the recursion                                                       *)
VisitIndex(w) ==
    IF w = RootId THEN 0
    ELSE CHOOSE i \in 1..Len(hist.visits) : hist.visits[i] = w
VisitedBefore(a, b) == VisitIndex(a) < VisitIndex(b)

(* C5 as stated: after a pass in which widget A, visited before widget B,  *)
(* made a focus call and B made the last one, the resolved focus change is *)
(* the one B asked for.                                                    *)
C5_LastCallerWins ==
    (/\ PassOver
     /\ Len(FocusCalls) >= 2
     /\ VisitedBefore(FocusCalls[Len(FocusCalls) - 1].widget, LastFocusCall.widget))
    => ResolvedFocusChange = Some(LastFocusCall.asked)

(* C5 amended: after a pass with two or more focus calls, the resolved     *)
(* focus change is the one the last caller B asked for when B's call is    *)
(* request_focus or set_focus, or B has focus.                             *)
C5_LastRecordedRequestWins ==
    (/\ PassOver
     /\ Len(FocusCalls) >= 2
     /\ RecordsRequest(LastFocusCall))
    => ResolvedFocusChange = Some(LastFocusCall.asked)

(* A asked for focus, then B asked for something else, and B's won *)
C5_Witness ==
    /\ PassOver
    /\ Len(FocusCalls) >= 2
    /\ VisitedBefore(FocusCalls[Len(FocusCalls) - 1].widget, LastFocusCall.widget)
    /\ FocusCalls[Len(FocusCalls) - 1].widget # RootId
    /\ FocusCalls[Len(FocusCalls) - 1].asked # LastFocusCall.asked
    /\ RecordsRequest(LastFocusCall)
    /\ ResolvedFocusChange = Some(LastFocusCall.asked)

FocusOp ==
    \/ request_focus
    \/ \E t \in WidgetIds : set_focus(t)
    \/ focus_next
    \/ focus_prev
    \/ resign_focus

(* C25: throughout an event pass the focused-widget id of the shared pass *)
(* state and every widget's has_focus flag stay what they were, so        *)
(* is_focused and has_focus answer the same for every widget before and   *)
(* after every step; a focus call that passes the activation check leaves *)
(* the shared pass state, the views and every other widget's record       *)
(* alone, and of the calling widget's record it changes at most the       *)
(* pending focus-change request.                                          *)
C25_FocusCallsAreIntents ==
    [][/\ \A w \in WidgetIds :
             /\ is_focused([widget |-> w])' = is_focused([widget |-> w])
             /\ has_focus([widget |-> w])' = has_focus([widget |-> w])
       /\ (FocusOp /\ ~CheckInitFails) =>
             /\ UNCHANGED <<global_state, ctxs>>
             /\ \A w \in WidgetIds :
                   widget_state'[w] =
                      IF w = Cur
                      THEN [widget_state[w] EXCEPT
                              !.request_focus = widget_state'[w].request_focus]
                      ELSE widget_state[w]]_vars

(* a widget without the focus asked for it while another widget has it: *)
(* the request is pending and the queries still answer as before         *)
C25_Witness ==
    /\ Running
    /\ widget_state[Cur].request_focus = Some(FocusChange("Focus", Cur))
    /\ \E f \in WidgetIds \ {Cur} : global_state.focus_widget = Some(f)
    /\ ~is_focused(Top)
    /\ ~has_focus(Top)

(* C6: focus_next, focus_prev and resign_focus called through an active    *)
(* view (or in a release build) by a widget with has_focus = false return  *)
(* normally and change no widget record, nothing of the shared pass state  *)
(* and no view.                                                            *)
C6_NoFocusNoEffect ==
    [][(/\ focus_next \/ focus_prev \/ resign_focus
        /\ ~CheckInitFails
        /\ ~has_focus(Top))
       => /\ ~Aborted'
          /\ UNCHANGED <<widget_state, global_state, ctxs, platform, render_ctx>>]_vars

(* a widget without focus holds a request and then called one of the three *)
C6_Witness ==
    /\ Running
    /\ Len(FocusCalls) >= 2
    /\ LastFocusCall.widget = Cur
    /\ LastFocusCall.op \in {"focus_next", "focus_prev", "resign_focus"}
    /\ ~has_focus(Top)
    /\ widget_state[Cur].request_focus # None

-----------------------------------------------------------------------------
(* A pass in which widgets request timers, and the timers firing after it *)

InitTimer ==
    PassStart({"LifeCycleCtx", "EventCtx"}, BOOLEAN, {None},
              {NoMock, MockAt(0), MockAt(1)}, MaxTimers)

NextTimer ==
    \/ Drive(init)
    \/ \E c \in WidgetIds : Drive(pod_enter(c))
    \/ Drive(pod_return)
    \/ Drive(pass_end)
    \/ \E d \in Durations : Call(request_timer(d))
    \/ \E d \in 1..MaxAdvance :
          /\ \A q \in global_state.mock_timer_queue : q.current_time + d <= MaxTime
          /\ Drive(move_timers_forward(d))
    \/ \E token \in 1..(MaxTimers + 1) : Drive(platform_timer_fired(token))

SpecTimer == InitTimer /\ [][NextTimer]_vars

Issued == {hist.issued[i] : i \in 1..Len(hist.issued)}
DeliveriesOf(token) ==
    {i \in 1..Len(hist.delivered) : hist.delivered[i].token = token}
InMockQueue(token) ==
    \E q \in global_state.mock_timer_queue : \E e \in q.queue : e.token = token
InPlatform(token) == \E e \in platform.timers : e.token = token
Fired == {hist.fired[i] : i \in 1..Len(hist.fired)}

(* C7: every token request_timer returned is a key of the timers map and   *)
(* maps to the widget that asked; the token was registered with the mock   *)
(* timer queue when one is installed and with the window otherwise, never  *)
(* with both.                                                              *)
C7_IssuedTokensRecorded ==
    \A i \in Issued :
       /\ i.token \in DOMAIN global_state.timers
       /\ global_state.timers[i.token] = i.widget
       /\ IF MockInstalled(global_state)
          THEN ~InPlatform(i.token)
               /\ (InMockQueue(i.token) \/ DeliveriesOf(i.token) # {})
          ELSE ~InMockQueue(i.token)
               /\ (InPlatform(i.token) \/ i.token \in Fired)

(* two widgets hold a timer each, the pass still running *)
C7_Witness ==
    /\ Running
    /\ Len(hist.issued) = 2
    /\ hist.issued[1].widget # hist.issued[2].widget
    /\ \A i \in Issued : global_state.timers[i.token] = i.widget

(* C8: the tokens issued are pairwise distinct, and a timer event reaches  *)
(* a widget only with a token that was issued and is a key of the map.     *)
C8_DistinctTokensNoStrayDelivery ==
    /\ \A i, j \in 1..Len(hist.issued) :
          i # j => hist.issued[i].token # hist.issued[j].token
    /\ \A k \in 1..Len(hist.delivered) :
          /\ hist.delivered[k].token \in DOMAIN global_state.timers
          /\ hist.delivered[k].token \in {i.token : i \in Issued}

(* the platform fired a token nobody was issued, and no widget heard of it *)
C8_Witness ==
    /\ Len(hist.issued) = 2
    /\ hist.issued[1].token # hist.issued[2].token
    /\ \E t \in Fired : t \notin {i.token : i \in Issued}
    /\ \E t \in Fired : t \in {i.token : i \in Issued}
    /\ Len(hist.delivered) = 1

(* C9: with the mock timer queue, a timer requested for duration d at mock *)
(* time t is delivered to the requesting widget with its token exactly     *)
(* once, by the first advance that brings the mock time to t + d, and by   *)
(* no advance that leaves the mock time below t + d.                       *)
C9_MockTimerFiresOnceWhenDue ==
    MockInstalled(global_state) =>
      \A i \in Issued :
        LET now == TheMock(global_state).current_time
            due == i.at + i.duration
        IN  /\ Cardinality(DeliveriesOf(i.token)) = (IF now >= due THEN 1 ELSE 0)
            /\ \A k \in DeliveriesOf(i.token) :
                  /\ hist.delivered[k].widget = i.widget
                  /\ hist.delivered[k].before < due
                  /\ hist.delivered[k].at >= due

(* a 3 s timer: advancing 1 s fired nothing, a further 2 s fired it once *)
C9_Witness ==
    /\ \E q \in global_state.mock_timer_queue : q.current_time = 3
    /\ \E i \in Issued :
          /\ i.at = 0 /\ i.duration = 3
          /\ Cardinality(DeliveriesOf(i.token)) = 1
          /\ \A k \in DeliveriesOf(i.token) :
                hist.delivered[k].before = 1 /\ hist.delivered[k].at = 3

-----------------------------------------------------------------------------
(* A pass in which widgets submit commands and actions *)

InitQueue ==
    PassStart({"EventCtx", "LifeCycleCtx"}, BOOLEAN, {None}, {NoMock}, MaxSubmits)

NextQueue ==
    \/ Drive(init)
    \/ \E c \in WidgetIds : Drive(pod_enter(c))
    \/ Drive(pod_return)
    \/ Drive(pass_end)
    \/ \E cmd \in Commands : Call(submit_command(cmd))
    \/ \E a \in Actions : Call(submit_action(a))
    \/ Call(new_window)
    \/ Call(invalidate_text_input)

SpecQueue == InitQueue /\ [][NextQueue]_vars

(* C10: the command queue holds the submitted commands, and the action     *)
(* queue one (action, submitting widget, window) entry per submit_action,  *)
(* both in submission order with nothing dropped or duplicated.            *)
C10_QueuesKeepSubmissionOrder ==
    /\ global_state.command_queue
       = [i \in 1..Len(hist.commands) |->
             default_to(hist.commands[i], TargetWindow(global_state.window_id))]
    /\ global_state.action_queue
       = [i \in 1..Len(hist.actions) |->
             <<hist.actions[i][1], hist.actions[i][2], global_state.window_id>>]

(* two different commands and two actions of different widgets are queued *)
C10_Witness ==
    /\ Len(global_state.command_queue) >= 2
    /\ global_state.command_queue[1].selector # global_state.command_queue[2].selector
    /\ Len(global_state.action_queue) >= 1
    /\ global_state.action_queue[1][2] # RootId

(* C11: the i-th queued command carries the window of the pass as target   *)
(* when the i-th submitted command had no explicit target (Auto), and the  *)
(* target it was submitted with otherwise.                                 *)
C11_AutoTargetDefaultsToWindow ==
    /\ Len(global_state.command_queue) = Len(hist.commands)
    /\ \A i \in 1..Len(hist.commands) :
          global_state.command_queue[i].target =
             IF hist.commands[i].target.kind = "Auto"
             THEN [kind |-> "Window", id |-> global_state.window_id]
             ELSE hist.commands[i].target

(* queued: an untargeted command, new_window's and invalidate_text_input's *)
C11_Witness ==
    /\ Len(global_state.command_queue) = 3
    /\ \E i \in 1..3 : /\ hist.commands[i].target = TargetAuto
                         /\ global_state.command_queue[i].target = TargetWindow(1)
    /\ \E i \in 1..3 : /\ global_state.command_queue[i].selector = "NEW_WINDOW"
                         /\ global_state.command_queue[i].target = TargetGlobal
    /\ \E i \in 1..3 : /\ global_state.command_queue[i].selector = "INVALIDATE_IME"
                         /\ global_state.command_queue[i].target = TargetWindow(1)

-----------------------------------------------------------------------------
(* One cycle of the run loop in which handlers submit commands *)

InitCycle ==
    PassStart({"EventCtx", "LifeCycleCtx"}, BOOLEAN, {None}, {NoMock}, MaxSubmits)

(* an untargeted and a targeted command *)
CycleCommands == {Command("a", TargetAuto), Command("b", TargetGlobal)}

NextCycle ==
    \/ Drive(init)
    \/ \E c \in WidgetIds : Drive(pod_enter(c))
    \/ Drive(pod_return)
    \/ Drive(pass_end)
    \/ Drive(paint_finish)
    \/ \E cmd \in CycleCommands : Call(submit_command(cmd))
    \/ Drive(host_after_handling)
    \/ Drive(host_after_update)
    \/ Drive(host_after_paint)

SpecCycle == InitCycle /\ [][NextCycle]_vars

Delivered == platform.delivered

(* C12: once the update pass has started, every command submitted during   *)
(* event or lifecycle handling has been delivered to the host, and it was  *)
(* delivered before the update pass; a command submitted during the update *)
(* pass is not delivered while the update or the paint pass is running and *)
(* has been delivered once the paint pass is over.                         *)
C12_CommandsDeliveredBetweenPasses ==
    \A i \in 1..Len(hist.commands) :
       /\ i <= Len(Delivered) =>
             Delivered[i].command.selector = hist.commands[i].selector
       /\ hist.command_phases[i] = "handling" =>
             (platform.phase # "handling" =>
                 i <= Len(Delivered) /\ Delivered[i].after = "handling")
       /\ hist.command_phases[i] = "update" =>
             /\ platform.phase \in {"update", "paint"} => i > Len(Delivered)
             /\ platform.phase = "idle" =>
                   i <= Len(Delivered) /\ Delivered[i].after = "paint"

(* a cycle is over in which a command was submitted during handling and   *)
(* another during the update pass                                         *)
C12_Witness ==
    /\ platform.phase = "idle"
    /\ Len(Delivered) = 2
    /\ hist.command_phases = <<"handling", "update">>
    /\ Delivered[1].after = "handling"
    /\ Delivered[2].after = "paint"

-----------------------------------------------------------------------------
(* A layout pass: handlers place their children and set paint insets *)

InitLayout ==
    PassStartFrom({"LayoutCtx"}, BOOLEAN, {None}, {NoMock}, MaxLayoutCalls,
                  NothingPending \cup ChildrenPending, CornerPointers)

NextLayout ==
    \/ Drive(init)
    \/ \E c \in WidgetIds : Drive(pod_enter(c))
    \/ Drive(pod_return)
    \/ Drive(pass_end)
    \/ \E c \in WidgetIds, o \in Points : Call(place_child(c, o))

SpecLayout == InitLayout /\ [][NextLayout]_vars

(* the parent's record holds what merge-up takes from the child's *)
MergedInto(parent_after, child_before, origin) ==
    /\ child_before.needs_layout => parent_after.needs_layout
    /\ child_before.request_anim => parent_after.request_anim
    /\ child_before.children_changed => parent_after.children_changed
    /\ RegionTranslate(child_before.invalid, origin) \subseteq parent_after.invalid
    /\ child_before.request_focus # None =>
          parent_after.request_focus = child_before.request_focus

(* C13: after place_child(c, o) the hot flag of c says whether the pointer *)
(* position of the pass is known and lies in c's layout rectangle at o,    *)
(* and when the call changed the flag, the parent's record has absorbed    *)
(* c's record.                                                             *)
C13_PlaceChildSetsHotAndMerges ==
    [][\A c \in WidgetIds, o \in Points :
          place_child(c, o) =>
             LET size == widget_state[c].size
                 rect == Rect(o.x, o.y, o.x + size.w, o.y + size.h)
                 hot == \E p \in Top.mouse_pos : RectContains(rect, p)
             IN  /\ widget_state'[c].is_hot = hot
                 /\ widget_state'[c].origin = o
                 /\ widget_state[c].is_hot # hot =>
                       MergedInto(widget_state'[Cur], widget_state[c], o)]_vars

(* C26: place_child(c, o) absorbs c's record into the parent's when the  *)
(* call changes c's hot flag, and only then: when the flag stays as it   *)
(* was, the parent's record is what it was except for the local paint    *)
(* rectangle, which is its union with c's paint rectangle at o, whatever *)
(* c's record has pending.                                               *)
C26_MergeOnlyOnHotChange ==
    [][\A c \in WidgetIds, o \in Points :
          place_child(c, o) =>
             IF widget_state'[c].is_hot # widget_state[c].is_hot
             THEN MergedInto(widget_state'[Cur], widget_state[c], o)
             ELSE widget_state'[Cur] =
                     [widget_state[Cur] EXCEPT !.local_paint_rect =
                         RectUnion(@, paint_rect([widget_state[c] EXCEPT
                                                     !.origin = o]))]]_vars

(* a child that needs layout was placed away from the pointer: it is not *)
(* hot, and its parent, the root, does not need layout                   *)
C26_Witness ==
    /\ Running
    /\ Len(ctxs) = 1
    /\ Top.kind = "LayoutCtx"
    /\ Top.mouse_pos = Some([x |-> 0, y |-> 0])
    /\ \E c \in ChildrenOf(RootId) :
          /\ widget_state[c].origin = [x |-> MaxCoord, y |-> MaxCoord]
          /\ ~widget_state[c].is_hot
          /\ widget_state[c].needs_layout
          /\ ~widget_state[c].is_expecting_place_child_call
          /\ RectContainsRect(widget_state[RootId].local_paint_rect,
                              paint_rect(widget_state[c]))
    /\ ~widget_state[RootId].needs_layout

(* a child that needs layout was moved under the pointer: it is hot and *)
(* the root has taken over its needs_layout                             *)
C13_Witness ==
    /\ Running
    /\ Len(ctxs) = 1
    /\ Top.kind = "LayoutCtx"
    /\ Top.mouse_pos = Some([x |-> MaxCoord, y |-> MaxCoord])
    /\ \E c \in ChildrenOf(RootId) :
          /\ widget_state[c].origin = [x |-> MaxCoord, y |-> MaxCoord]
          /\ widget_state[c].is_hot
          /\ widget_state[c].needs_layout
          /\ ~widget_state[c].is_expecting_place_child_call
    /\ widget_state[RootId].needs_layout

-----------------------------------------------------------------------------
(* A layout pass in which handlers also set their paint insets *)

InitInsets ==
    PassStartFrom({"LayoutCtx"}, BOOLEAN, {None}, {NoMock}, MaxLayoutCalls,
                  NothingPending, {None})

NextInsets ==
    \/ Drive(init)
    \/ \E c \in WidgetIds : Drive(pod_enter(c))
    \/ Drive(pod_return)
    \/ Drive(pass_end)
    \/ \E c \in WidgetIds, o \in Points : Call(place_child(c, o))
    \/ \E i \in InsetsInputs : Call(set_paint_insets(i))

SpecInsets == InitInsets /\ [][NextInsets]_vars

(* C18: the paint rectangle of every widget contains its layout rectangle; *)
(* the stored paint insets are the insets given to set_paint_insets with   *)
(* every negative component replaced by zero.                              *)
C18_PaintRectContainsLayoutRect ==
    \A w \in WidgetIds :
       /\ RectContainsRect(paint_rect(widget_state[w]), layout_rect(widget_state[w]))
       /\ \/ widget_state[w].paint_insets = ZeroInsets
          \/ \E i \in hist.insets :
                /\ widget_state[w].paint_insets.x0 = (IF i.x0 < 0 THEN 0 ELSE i.x0)
                /\ widget_state[w].paint_insets.y0 = (IF i.y0 < 0 THEN 0 ELSE i.y0)
                /\ widget_state[w].paint_insets.x1 = (IF i.x1 < 0 THEN 0 ELSE i.x1)
                /\ widget_state[w].paint_insets.y1 = (IF i.y1 < 0 THEN 0 ELSE i.y1)

(* a child was given insets with negative components and was then placed *)
C18_Witness ==
    \E c \in ChildrenOf(RootId) :
       /\ Insets(0 - 1, 0 - 1, 1, 0 - 1) \in hist.insets
       /\ widget_state[c].paint_insets = Insets(0, 0, 1, 0)
       /\ widget_state[c].origin # [x |-> 0, y |-> 0]
       /\ ~widget_state[c].is_expecting_place_child_call
       /\ paint_rect(widget_state[c]) # layout_rect(widget_state[c])

-----------------------------------------------------------------------------
(* A pass in which handlers stash children and signal changes *)

InitStash ==
    PassStart({"WidgetCtx", "EventCtx", "LifeCycleCtx"}, BOOLEAN, {None}, {NoMock},
              MaxRequests)

NextStash ==
    \/ Drive(init)
    \/ \E c \in WidgetIds : Drive(pod_enter(c))
    \/ Drive(pod_return)
    \/ Drive(pass_end)
    \/ \E c \in WidgetIds, st \in BOOLEAN : Call(set_stashed(c, st))
    \/ Call(children_changed)
    \/ Call(request_layout)
    \/ Call(request_anim_frame)

SpecStash == InitStash /\ [][NextStash]_vars

(* C14: set_stashed(c, st) through an active generic, event or lifecycle  *)
(* view (or in a release build) leaves c's stashed flag equal to st and    *)
(* the caller's children_changed, update_focus_chain and needs_layout      *)
(* flags true, and does not abort.                                         *)
C14_SetStashedFlagsParent ==
    [][\A c \in WidgetIds, st \in BOOLEAN :
          (set_stashed(c, st) /\ ~CheckInitFails) =>
             /\ ~Aborted'
             /\ widget_state'[c].is_stashed = st
             /\ widget_state'[Cur].children_changed
             /\ widget_state'[Cur].update_focus_chain
             /\ widget_state'[Cur].needs_layout]_vars

(* the root stashed one child and then unstashed the other *)
C14_Witness ==
    /\ Running
    /\ Len(ctxs) = 1
    /\ Top.is_init
    /\ budget = MaxRequests - 2
    /\ \E c, d \in ChildrenOf(RootId) :
          c # d /\ widget_state[c].is_stashed /\ ~widget_state[d].is_stashed
    /\ widget_state[RootId].children_changed
    /\ widget_state[RootId].update_focus_chain
    /\ widget_state[RootId].needs_layout

-----------------------------------------------------------------------------
(* A pass in which handlers request repaints *)

InitRepaint ==
    PassStart({"WidgetCtx", "EventCtx", "LifeCycleCtx"}, BOOLEAN, {None}, {NoMock},
              MaxRepaints)

NextRepaint ==
    \/ Drive(init)
    \/ \E c \in WidgetIds : Drive(pod_enter(c))
    \/ Drive(pod_return)
    \/ Drive(pass_end)
    \/ Call(request_paint)
    \/ \E r \in DirtyRects : Call(request_paint_rect(r))

SpecRepaint == InitRepaint /\ [][NextRepaint]_vars

(* C15: request_paint_rect(r) through an active view (or in a release     *)
(* build) does not abort and leaves a region of the calling widget that   *)
(* contains r, wherever r lies relative to the widget's layout rectangle. *)
C15_RequestedRectIsInvalid ==
    [][\A r \in DirtyRects :
          (request_paint_rect(r) /\ ~CheckInitFails) =>
             /\ ~Aborted'
             /\ RegionContains(widget_state'[Cur].invalid, r)]_vars

(* the region of a widget holds a rectangle wholly outside its layout *)
(* rectangle and one partly outside                                   *)
C15_Witness ==
    \E w \in WidgetIds :
       /\ Rect(0 - 1, 1, 0, 2) \in widget_state[w].invalid
       /\ Rect(0, 0, 2, 1) \in widget_state[w].invalid
       /\ layout_rect(widget_state[w]) = Rect(0, 0, 1, 1)

(* C16: the invalid region of a widget contains every rectangle it passed *)
(* to request_paint_rect and the paint rectangle of every request_paint   *)
(* it made so far in the pass.                                            *)
C16_RepaintRequestsAccumulate ==
    \A e \in hist.repaints :
       RegionContains(widget_state[e.widget].invalid, e.rect)

-----------------------------------------------------------------------------
(* Passes in which handlers disable and enable widgets *)

InitDisabled ==
    PassStart({"EventCtx", "LifeCycleCtx"}, BOOLEAN, {None}, {NoMock}, MaxDisables)

NextDisabled ==
    \/ Drive(init)
    \/ \E c \in WidgetIds : Drive(pod_enter(c))
    \/ Drive(pod_return)
    \/ Drive(pass_end)
    \/ \E d \in BOOLEAN : Call(set_disabled(d))
    \/ Drive(route_disabled_changed)

SpecDisabled == InitDisabled /\ [][NextDisabled]_vars

(* the effective-disabled status of an ancestor of w is true *)
AncestorEffectivelyDisabled(w) ==
    \E a \in WidgetIds : a # w /\ IsAncestorOrSelf(a, w) /\ is_disabled(widget_state[a])

(* C17 as stated, the explicit-disabled value being the one set_disabled   *)
(* wrote: is_disabled() is true iff that value is true or an ancestor is   *)
(* effectively disabled.                                                   *)
C17_EffectiveIffExplicitOrAncestor ==
    \A w \in WidgetIds :
       is_disabled(widget_state[w]) <=>
          (widget_state[w].is_explicitly_disabled_new \/ AncestorEffectivelyDisabled(w))

(* C17 amended: is_disabled() is true iff the explicit-disabled value the  *)
(* driver last committed is true or an ancestor is effectively disabled;   *)
(* when no value is pending this is the value set_disabled wrote.          *)
C17_EffectiveIffCommittedOrAncestor ==
    \A w \in WidgetIds :
       /\ is_disabled(widget_state[w]) <=>
             (widget_state[w].is_explicitly_disabled \/ AncestorEffectivelyDisabled(w))
       /\ ~DisabledPending =>
             (is_disabled(widget_state[w]) <=>
                (widget_state[w].is_explicitly_disabled_new
                    \/ AncestorEffectivelyDisabled(w)))

(* the root was disabled and the value committed: a child that was never  *)
(* disabled itself reports disabled; then the root was enabled again, not *)
(* yet committed                                                          *)
C17_Witness ==
    /\ widget_state[RootId].is_explicitly_disabled
    /\ ~widget_state[RootId].is_explicitly_disabled_new
    /\ \E c \in ChildrenOf(RootId) :
          /\ ~widget_state[c].is_explicitly_disabled
          /\ is_disabled(widget_state[c])

(* what the last set_disabled call of widget w asked for, if it made one *)
LastDisableCall(w) == hist.disables[w]

(* C28: a set_disabled(d) call that passes the activation check changes   *)
(* one field, the pending explicit-disabled value of the calling widget,  *)
(* to d: what is_disabled answers for any widget is the same before and   *)
(* after, and no children-disabled-changed marker is set; so the pending  *)
(* value of a widget is always that of its last call.                     *)
C28_SetDisabledWritesPendingOnly ==
    /\ [][\A d \in BOOLEAN :
            (set_disabled(d) /\ ~CheckInitFails) =>
               /\ widget_state' = [widget_state EXCEPT
                                     ![Cur].is_explicitly_disabled_new = d]
               /\ \A w \in WidgetIds :
                     /\ is_disabled(widget_state'[w]) = is_disabled(widget_state[w])
                     /\ ~widget_state'[w].children_disabled_changed
               /\ UNCHANGED <<ctxs, global_state>>]_vars
    /\ [](\A w \in WidgetIds :
            \A d \in LastDisableCall(w) :
               widget_state[w].is_explicitly_disabled_new = d)

(* a widget that is disabled, the value committed, has just asked to be *)
(* enabled: its pending value is that of this last call and is_disabled *)
(* still answers true                                                   *)
C28_Witness ==
    /\ Running
    /\ LastDisableCall(Cur) = Some(FALSE)
    /\ widget_state[Cur].is_explicitly_disabled
    /\ ~widget_state[Cur].is_explicitly_disabled_new
    /\ is_disabled(widget_state[Cur])

-----------------------------------------------------------------------------
(* Passes whose handlers start background computations, the threads these  *)
(* spawn, and the host that is woken by what the threads post              *)

InitBackground ==
    PassStart({"EventCtx", "LifeCycleCtx"}, BOOLEAN, {None}, {NoMock}, MaxTasks)

Tokens == 1..MaxTasks

NextBackground ==
    \/ Drive(init)
    \/ \E c \in WidgetIds : Drive(pod_enter(c))
    \/ Drive(pod_return)
    \/ Drive(pass_end)
    \/ Call(compute_in_background)
    \/ \E t \in Tokens : Drive(worker_task_returns(t))
    \/ \E t \in Tokens : Drive(worker_resolve_promise(t))
    \/ Drive(host_run_ext_events)

SpecBackground == InitBackground /\ [][NextBackground]_vars

(* handlers return, every thread is scheduled and background_task returns, *)
(* the woken host runs                                                      *)
SpecBackgroundFair ==
    /\ SpecBackground
    /\ WF_vars(Drive(pod_return) \/ Drive(pass_end))
    /\ \A t \in Tokens : WF_vars(Drive(worker_task_returns(t)))
    /\ \A t \in Tokens : WF_vars(Drive(worker_resolve_promise(t)))
    /\ WF_vars(Drive(host_run_ext_events))

PromiseOf(token) ==
    CHOOSE p \in {hist.promises[i] : i \in 1..Len(hist.promises)} : p.token = token
Promised(token) == \E i \in 1..Len(hist.promises) : hist.promises[i].token = token
ResolvedFor(token) ==
    \E i \in 1..Len(hist.resolved) :
       /\ hist.resolved[i].token = token
       /\ hist.resolved[i].widget = PromiseOf(token).caller
       /\ hist.resolved[i].window_id = PromiseOf(token).window_id
       /\ hist.resolved[i].pass_no > PromiseOf(token).pass_no

(* C20: a compute_in_background call that passes the activation check     *)
(* returns a fresh token to its caller while the thread it spawned has not *)
(* run the task yet and nothing is posted; the thread posts one result per *)
(* token, never two, carrying the token, the id of the calling widget and  *)
(* the id of the pass's window; and unless a later misuse of a view aborts *)
(* the process, that result is eventually delivered to the calling widget  *)
(* on a pass later than the call's.                                         *)
C20_PromiseResolvedOnLaterPass ==
    /\ [][(compute_in_background /\ ~CheckInitFails) =>
            /\ ctxs' = ctxs
            /\ Len(hist'.promises) = Len(hist.promises) + 1
            /\ ~Promised(hist'.promises[Len(hist'.promises)].token)
            /\ \E w \in platform'.workers :
                  /\ w.token = hist'.promises[Len(hist'.promises)].token
                  /\ w.pc = "background_task"
            /\ UNCHANGED <<global_state, widget_state>>]_vars
    /\ [](\A i, j \in 1..Len(hist.posts) :
            /\ hist.posts[i].token = hist.posts[j].token => i = j
            /\ Promised(hist.posts[i].token)
            /\ hist.posts[i].widget_id = PromiseOf(hist.posts[i].token).caller
            /\ hist.posts[i].window_id = PromiseOf(hist.posts[i].token).window_id)
    /\ [](\A i, j \in 1..Len(hist.resolved) :
            /\ hist.resolved[i].token = hist.resolved[j].token => i = j
            /\ ResolvedFor(hist.resolved[i].token))
    /\ \A t \in Tokens : Promised(t) ~> (ResolvedFor(t) \/ Aborted)

(* two widgets other than the root each started a computation in the first *)
(* pass, the second finished first, and both results were delivered        *)
C20_Witness ==
    /\ ~Aborted
    /\ Len(hist.promises) = 2
    /\ hist.promises[1].caller # RootId
    /\ hist.promises[2].caller \notin {RootId, hist.promises[1].caller}
    /\ hist.promises[2].pass_no = 1
    /\ Len(hist.posts) = 2
    /\ hist.posts[1].token = 2
    /\ ResolvedFor(1) /\ ResolvedFor(2)

-----------------------------------------------------------------------------
(* The traversal thread interleaved with the threads of both kinds of *)
(* background work                                                     *)

InitWorkers == PassStart({"EventCtx"}, {TRUE}, {None}, {NoMock}, MaxTasks)

Threads == 1..MaxTasks

NextWorkers ==
    \/ Drive(init)
    \/ \E c \in WidgetIds : Drive(pod_enter(c))
    \/ Drive(pod_return)
    \/ Drive(pass_end)
    \/ Call(run_in_background)
    \/ Call(compute_in_background)
    \/ \E t \in Threads : Drive(task_posts(t))
    \/ \E t \in Threads : Drive(task_returns(t))
    \/ \E t \in Tokens : Drive(worker_task_returns(t))
    \/ \E t \in Tokens : Drive(worker_resolve_promise(t))
    \/ Drive(host_run_ext_events)

SpecWorkers == InitWorkers /\ [][NextWorkers]_vars

ThreadStep ==
    \/ \E t \in Threads : task_posts(t) \/ task_returns(t)
    \/ \E t \in Tokens : worker_task_returns(t) \/ worker_resolve_promise(t)

(* C21: a step of a thread spawned by run_in_background or                *)
(* compute_in_background, taken at any point of the traversal, leaves the *)
(* widget records, the views, the command queue, the action queue, the    *)
(* timer map and the focus of the shared pass state as they are; of the   *)
(* pass state it changes at most the queue behind the event handle, by    *)
(* appending one message.                                                 *)
C21_WorkersOnlyPost ==
    [][ThreadStep =>
          /\ UNCHANGED <<widget_state, ctxs, render_ctx, panicked>>
          /\ \A f \in DOMAIN global_state \ {"ext_event_sink"} :
                global_state'[f] = global_state[f]
          /\ \/ global_state'.ext_event_sink = global_state.ext_event_sink
             \/ /\ Len(global_state'.ext_event_sink)
                      = Len(global_state.ext_event_sink) + 1
                /\ SubSeq(global_state'.ext_event_sink, 1,
                          Len(global_state.ext_event_sink))
                      = global_state.ext_event_sink]_vars

(* while the handler of a child is still running, a task and a promise *)
(* thread have both posted                                              *)
C21_Witness ==
    /\ Running
    /\ Len(ctxs) >= 2
    /\ Len(global_state.ext_event_sink) = 2
    /\ \E i, j \in 1..2 : /\ IsPromiseResult(global_state.ext_event_sink[i])
                          /\ ~IsPromiseResult(global_state.ext_event_sink[j])

(* C22: nothing orders the threads of two background computations: while *)
(* the process runs, every spawned thread can take its next step whatever *)
(* the other threads have done, so a result that is ready can be posted   *)
(* before or after the result of a thread spawned earlier or later.       *)
C22_NoOrderBetweenResults ==
    panicked = NoPanic =>
       /\ \A w \in platform.workers :
             IF w.pc = "background_task"
             THEN ENABLED worker_task_returns(w.token)
             ELSE ENABLED worker_resolve_promise(w.token)
       /\ \A w \in platform.tasks :
             /\ w.pc = "background_task" => ENABLED task_posts(w.thread)
             /\ ENABLED task_returns(w.thread)

(* two computations started in the same pass: the result of the second *)
(* arrived before the result of the first                               *)
C22_Witness ==
    /\ Len(hist.promises) = 2
    /\ hist.promises[1].pass_no = hist.promises[2].pass_no
    /\ Len(global_state.ext_event_sink) = 2
    /\ global_state.ext_event_sink[1].token = hist.promises[2].token
    /\ global_state.ext_event_sink[2].token = hist.promises[1].token

(* the same two computations, their results arriving in spawning order *)
C22_InOrderReached ==
    /\ Len(hist.promises) = 2
    /\ hist.promises[1].pass_no = hist.promises[2].pass_no
    /\ Len(global_state.ext_event_sink) = 2
    /\ global_state.ext_event_sink[1].token = hist.promises[1].token
    /\ global_state.ext_event_sink[2].token = hist.promises[2].token

-----------------------------------------------------------------------------
(* Passes of every kind in which handlers build views themselves: nested *)
(* paint views and the views of children they mutate                      *)

InitViews == PassStart(CtxKinds, {TRUE}, {None}, {NoMock}, MaxMisuses)

NextViews ==
    \/ Drive(init)
    \/ \E c \in WidgetIds : Drive(pod_enter(c))
    \/ Drive(pod_return)
    \/ Drive(pass_end)
    \/ Drive(paint_finish)
    \/ \E r \in Regions : Call(with_child_ctx(r))
    \/ Drive(with_child_ctx_return)
    \/ \E c \in WidgetIds : Call(get_mut(c))
    \/ Drive(get_mut_return)
    \/ Call(request_layout)

SpecViews == InitViews /\ [][NextViews]_vars

(* C23: every step that builds a view builds it inactive, and a view *)
(* becomes active only in a step of init.                             *)
C23_ViewsStartInactive ==
    [][/\ Len(ctxs') > Len(ctxs) => ~ctxs'[Len(ctxs')].is_init
       /\ \A i \in 1..Len(ctxs) :
             (i <= Len(ctxs') /\ ctxs'[i].is_init /\ ~ctxs[i].is_init)
                => (init /\ i = Len(ctxs))]_vars

-----------------------------------------------------------------------------
(* An event pass in which handlers stash and unstash children, and the *)
(* layout pass that follows it                                          *)

InitHit == PassStart({"EventCtx"}, {TRUE}, {None}, {NoMock}, MaxLayoutCalls)

NextHit ==
    \/ Drive(init)
    \/ \E c \in WidgetIds : Drive(pod_enter(c))
    \/ Drive(pod_return)
    \/ Drive(pass_end)
    \/ \E c \in WidgetIds, st \in BOOLEAN : Call(set_stashed(c, st))
    \/ \E p \in CornerPointers : Drive(host_layout_pass(p))
    \/ \E c \in WidgetIds, o \in Points : Call(place_child(c, o))

SpecHit == InitHit /\ [][NextHit]_vars

(* the pointer position of the running layout pass lies in the layout *)
(* rectangle child c has when placed at o                             *)
PointerOver(c, o) ==
    \E p \in Top.mouse_pos :
       RectContains(layout_rect([widget_state[c] EXCEPT !.origin = o]), p)

(* C29, as claimed: no place_child call on a stashed child leaves the *)
(* child hot.                                                         *)
C29_StashedNeverHot ==
    [][\A c \in WidgetIds, o \in Points :
          (place_child(c, o) /\ widget_state[c].is_stashed) =>
             ~widget_state'[c].is_hot]_vars

(* C29, amended: the hot flag of a stashed child is set to true by no step *)
(* other than a place_child call on that child; place_child does not read *)
(* the stashed flag, and a call on a stashed child leaves the child hot    *)
(* exactly when the pointer position is known and lies in the layout       *)
(* rectangle the call gives it.                                            *)
C29_StashedHotOnlyWhenPlaced ==
    [][\A c \in WidgetIds :
          widget_state[c].is_stashed =>
             /\ (widget_state'[c].is_hot /\ ~widget_state[c].is_hot) =>
                   \E o \in Points : place_child(c, o)
             /\ \A o \in Points :
                   place_child(c, o) =>
                      widget_state'[c].is_hot = PointerOver(c, o)]_vars

(* a child that an event handler stashed was placed under the pointer by *)
(* the layout handler of its parent: it is stashed and hot                *)
C29_Witness ==
    /\ Running
    /\ Top.kind = "LayoutCtx"
    /\ \E c \in ChildrenOf(Cur) :
          /\ widget_state[c].is_stashed
          /\ widget_state[c].is_hot
          /\ ~widget_state[c].is_expecting_place_child_call

-----------------------------------------------------------------------------
(* An event or layout pass whose handlers use the operations that touch *)
(* the dirtiness flags, among others                                     *)

InitDirty ==
    PassStartFrom({"EventCtx", "LayoutCtx"}, {TRUE}, {None}, {NoMock}, MaxRequests,
                  NothingPending \cup ChildrenPending,
                  {Some([x |-> 0, y |-> 0])})

NextDirty ==
    \/ Drive(init)
    \/ \E c \in WidgetIds : Drive(pod_enter(c))
    \/ Drive(pod_return)
    \/ Drive(pass_end)
    \/ Call(request_layout)
    \/ Call(request_anim_frame)
    \/ Call(children_changed)
    \/ \E c \in WidgetIds, st \in BOOLEAN : Call(set_stashed(c, st))
    \/ Call(set_disabled(TRUE))
    \/ \E c \in WidgetIds : Call(place_child(c, [x |-> 0, y |-> 0]))
    \/ Call(request_focus)
    \/ Call(resign_focus)
    \/ Call(set_handled)
    \/ Call(submit_command(Command("a", TargetAuto)))
    \/ Call(request_timer(1))

SpecDirty == InitDirty /\ [][NextDirty]_vars

DirtyFlags == {"needs_layout", "children_changed", "update_focus_chain", "request_anim"}

(* C30: within a pass no step takes a dirtiness flag of a widget back: a *)
(* needs_layout, children_changed, update_focus_chain or request_anim    *)
(* flag that is true stays true.                                         *)
C30_DirtyFlagsMonotone ==
    [][\A w \in WidgetIds, flag \in DirtyFlags :
          widget_state[w][flag] => widget_state'[w][flag]]_vars

(* a handler signalled changed children and asked for an animation frame, *)
(* and then disabled its widget: the four flags are still set              *)
C30_Witness ==
    /\ Running
    /\ budget = 0
    /\ \A flag \in DirtyFlags : widget_state[Cur][flag]
    /\ widget_state[Cur].is_explicitly_disabled_new

-----------------------------------------------------------------------------
(* An event pass whose handlers mark the event handled, ask whether it is, *)
(* and use the other operations of the event view, in either build         *)

InitHandled == PassStart({"EventCtx"}, BOOLEAN, {None}, {NoMock}, MaxEventCalls)

NextHandled ==
    \/ Drive(init)
    \/ \E c \in WidgetIds : Drive(pod_enter(c))
    \/ Drive(pod_return)
    \/ Drive(pass_end)
    \/ \E c \in WidgetIds : Drive(get_mut(c))
    \/ Drive(get_mut_return)
    \/ Call(set_handled)
    \/ Call(is_handled)
    \/ Call(request_focus)
    \/ Call(request_layout)
    \/ Call(submit_command(Command("a", TargetAuto)))

SpecHandled == InitHandled /\ [][NextHandled]_vars

HandledAnswers == hist.answers

(* C31: set_handled() leaves the flag of its event view true, no step sets *)
(* a true flag of an event view back to false while the view exists, and   *)
(* once is_handled() answered true on a view it answers true on every      *)
(* later call on that view.                                                *)
C31_HandledIsMonotone ==
    /\ [][/\ (set_handled /\ ~Aborted') => ctxs'[Len(ctxs')].is_handled
          /\ \A i \in 1..Len(ctxs) :
                (/\ i <= Len(ctxs')
                 /\ ctxs[i].kind = "EventCtx"
                 /\ ctxs[i].is_handled) => ctxs'[i].is_handled]_vars
    /\ [](\A i, j \in 1..Len(HandledAnswers) :
             (/\ i < j
              /\ HandledAnswers[i].widget = HandledAnswers[j].widget
              /\ HandledAnswers[i].handled) => HandledAnswers[j].handled)

(* a handler marked the event handled, asked, did something else on the *)
(* view, and asked again: both answers are true                         *)
C31_Witness ==
    /\ Running
    /\ Top.kind = "EventCtx"
    /\ Top.is_handled
    /\ widget_state[Cur].needs_layout
    /\ \E i, j \in 1..Len(HandledAnswers) :
          /\ i < j
          /\ HandledAnswers[i].widget = Cur
          /\ HandledAnswers[j].widget = Cur
          /\ HandledAnswers[i].handled
          /\ HandledAnswers[j].handled

-----------------------------------------------------------------------------
(* A paint pass, in either build, after a pass that left the children in  *)
(* need of layout: the handler uses every operation of the paint view     *)

InitFrame ==
    PassStartFrom({"PaintCtx"}, BOOLEAN, {None}, {NoMock}, MaxPaintCalls,
                  ChildrenPending, {None})

NextFrame ==
    \/ Drive(init)
    \/ \E q \in QueriesOf("PaintCtx") : Call(Query(q))
    \/ \E t \in Transforms : Call(transform(t))
    \/ \E z \in ZIndices : Call(paint_with_z_index(z, Len(hist.scheduled) + 1))
    \/ \E r \in Regions : Call(with_child_ctx(r))
    \/ Drive(with_child_ctx_return)
    \/ \E ok \in BOOLEAN : Call(with_save(ok))
    \/ \E ok \in BOOLEAN : Drive(with_save_return(ok))
    \/ Drive(paint_finish)

SpecFrame == InitFrame /\ [][NextFrame]_vars

(* a step of depth, region, a status or geometry query, with_child_ctx, *)
(* with_save or paint_with_z_index on a paint view                       *)
PaintViewOp ==
    /\ Running
    /\ Top.kind = "PaintCtx"
    /\ \/ \E q \in QueriesOf("PaintCtx") : Query(q)
       \/ \E r \in Regions : with_child_ctx(r)
       \/ with_child_ctx_return
       \/ \E ok \in BOOLEAN : with_save(ok) \/ with_save_return(ok)
       \/ \E z \in ZIndices : paint_with_z_index(z, Len(hist.scheduled) + 1)

(* the view as the handler sees it, without its deferred list and without *)
(* the count of with_save closures it is running                          *)
ViewFrame(c) == [c EXCEPT !.z_ops = <<>>, !.open_saves = 0]

(* C32: a step of depth, region, with_child_ctx, with_save,               *)
(* paint_with_z_index or a status or geometry query of a paint view       *)
(* changes no widget record, nor the command queue, the action queue or   *)
(* the timers; of the views that exist before and after it, it changes    *)
(* only the deferred lists; and the view with_child_ctx builds has the    *)
(* depth of its parent plus one.                                          *)
C32_PaintViewFrame ==
    [][PaintViewOp =>
          /\ widget_state' = widget_state
          /\ global_state' = global_state
          /\ platform' = platform
          /\ \A i \in 1..Len(ctxs) :
                i <= Len(ctxs') => ViewFrame(ctxs'[i]) = ViewFrame(ctxs[i])
          /\ Len(ctxs') > Len(ctxs) =>
                /\ Len(ctxs') = Len(ctxs) + 1
                /\ ctxs'[Len(ctxs')].depth = Top.depth + 1]_vars

(* inside a nested view, one level deeper than the root's, the handler *)
(* saved the surface after transforming it and deferred an operation,  *)
(* and the children's records still carry their pending layout         *)
C32_Witness ==
    /\ Running
    /\ Len(ctxs) = 2
    /\ Top.made_by = "with_child_ctx"
    /\ Top.depth = ctxs[1].depth + 1
    /\ Top.z_ops # <<>>
    /\ render_ctx.saved # <<>>
    /\ render_ctx.transform # 0
    /\ \A w \in WidgetIds \ {RootId} : widget_state[w].needs_layout

=============================================================================
